---- MODULE Spec2Model ----
(***************************************************************************)
(* Model of the AI trading backend: the simulated ledger (cash balances,   *)
(* holdings, trades, exchange history, hold scenarios), the currency       *)
(* exchange and trade execution of TradingService, and the trading round   *)
(* that asks every active model for a decision and executes it.            *)
(*                                                                         *)
(* Monetary amounts are JavaScript numbers in the source; they are         *)
(* modelled as exact rationals <<numerator, denominator>>, with <<0, 0>>   *)
(* for NaN (stored by the ledger as null).                                 *)
(***************************************************************************)
EXTENDS Integers, Sequences, FiniteSets, TLC

----------------------------------------------------------------------------
(* Bounds of the model *)

\* total number of per-model loop iterations over all rounds
MaxSteps == 2
\* number of store operations that fail in a run
MaxFaults == 1

(* Program constants *)

\* fallback USD/KRW rate of getExchangeRate
DefaultRate == 1320
\* exchange safety limit: 80% of the source balance
MaxExchangeNum == 4
MaxExchangeDen == 5
\* auto-exchange buffer of executeTrade: 1.01
BufferNum == 101
BufferDen == 100

(* Input alphabets *)

ModelIds == {"gpt", "claude"}
\* results of getAIModels: the active models ordered by created_at
ActiveLists == {<< >>, <<"gpt">>, <<"gpt", "claude">>}
InitialKRW == 1000000
Markets == {"KR", "US"}
Tickers == {"005930"}
\* rates the upstream source may answer
Rates == {1000}
\* live prices a quote may carry
QuotePrices(market) == IF market = "KR" THEN {0, 50000, 70000} ELSE {0, 90, 150}
\* the exchange instructions a decision may carry
\* (amount << >>: the field is missing)
RawExchanges ==
  {[type |-> "KRW_TO_USD", amount |-> <<0>>],
   [type |-> "KRW_TO_USD", amount |-> <<500000>>],
   [type |-> "KRW_TO_USD", amount |-> << >>],
   [type |-> "USD_TO_KRW", amount |-> <<100>>]}

----------------------------------------------------------------------------
(* Arithmetic on numbers: <<n, d>>, d > 0, in lowest terms, or NaN.  As in  *)
(* JavaScript an operation on NaN gives NaN and a comparison with NaN is   *)
(* false.                                                                  *)

Abs(x) == IF x < 0 THEN -x ELSE x

RECURSIVE GCD(_, _)
GCD(a, b) == IF b = 0 THEN a ELSE GCD(b, a % b)

Norm(n, d) == LET g == GCD(Abs(n), d) IN <<n \div g, d \div g>>

R(i) == <<i, 1>>
Zero == R(0)
NaN == <<0, 0>>
IsNaN(a) == a[2] = 0

RAdd(a, b) ==
  IF IsNaN(a) \/ IsNaN(b) THEN NaN
  ELSE LET g == GCD(a[2], b[2])
       IN Norm(a[1] * (b[2] \div g) + b[1] * (a[2] \div g),
               (a[2] \div g) * b[2])

RNeg(a) == <<-a[1], a[2]>>
RSub(a, b) == RAdd(a, RNeg(b))

RMul(a, b) ==
  IF IsNaN(a) \/ IsNaN(b) THEN NaN
  ELSE LET g1 == GCD(Abs(a[1]), b[2])
           g2 == GCD(Abs(b[1]), a[2])
       IN Norm((a[1] \div g1) * (b[1] \div g2),
               (a[2] \div g2) * (b[2] \div g1))

\* division by a positive number
RDiv(a, b) == RMul(a, <<b[2], b[1]>>)

RLt(a, b) ==
  /\ ~IsNaN(a)
  /\ ~IsNaN(b)
  /\ LET g == GCD(a[2], b[2])
     IN a[1] * (b[2] \div g) < b[1] * (a[2] \div g)

RLe(a, b) == ~IsNaN(a) /\ ~IsNaN(b) /\ ~RLt(b, a)

\* Math.min
RMin(a, b) ==
  IF IsNaN(a) \/ IsNaN(b) THEN NaN ELSE IF RLt(b, a) THEN b ELSE a

\* Number(v) of a stored numeric column: null reads as 0
Number(v) == IF IsNaN(v) THEN Zero ELSE v

----------------------------------------------------------------------------
(* State *)

VARIABLES
  cash,                \* ai_cash_balances: model -> [krw_balance, usd_balance]
  holdings,            \* ai_portfolios: set of rows
  trades,              \* ai_trades: sequence of appended rows
  exchanges,           \* ai_exchange_history: sequence of appended rows
  scenarios,           \* ai_trade_scenarios: sequence of appended rows
  nextId,              \* next row id of ai_portfolios
  cachedExchangeRate,  \* StockPriceService.cachedExchangeRate, 0 when null
  pc,                  \* position of runMarketTradingRound
  market,              \* the round's market
  models,              \* the models loaded by the round
  idx,                 \* position of the for loop in models
  decision,            \* decision of the model being processed
  results,             \* the round's results list
  tradesExecuted,      \* the round's counter
  tradesAtStart,       \* trade records stored when the round started
  notifications,       \* number of notifications sent
  ret,                 \* what the last round returned to its caller
  steps,               \* loop iterations started so far
  faults,              \* store operations that failed so far
  last,                \* call trace of the current / latest loop iteration
  analysis,            \* one decision request of AIProviderService
  retry,               \* one call of SupabaseService.withRetry
  clock,               \* one evaluation of isMarketOpen
  trigger,             \* the scheduler tick and the HTTP trigger
  valuation,           \* one scheduler tick with its valuation job
  backfill,            \* one run of fillMissingPortfolioHistory
  rateCache            \* the exchange-rate cache of StockPriceService

ledgerVars == <<cash, holdings, trades, exchanges, scenarios, nextId>>
roundVars == <<cash, holdings, trades, exchanges, scenarios, nextId,
               cachedExchangeRate, pc, market, models, idx, decision, results,
               tradesExecuted, tradesAtStart, notifications, ret, steps,
               faults, last>>
sideVars == <<analysis, retry, clock, trigger>>
jobVars == <<valuation, backfill, rateCache>>
vars == <<roundVars, sideVars, jobVars>>

\* the values of analysis, retry, clock and trigger while nothing of theirs
\* is running
NoAnalysis == [pc |-> "idle"]
NoRetry == [pc |-> "idle"]
NoClock == [pc |-> "idle"]
NoTrigger == [pc |-> "idle"]

\* the values of valuation, backfill and rateCache while nothing of theirs
\* is running
NoValuation == [pc |-> "idle"]
NoBackfill == [pc |-> "idle"]
NoRateCache == [pc |-> "idle"]

JobsIdle ==
  /\ valuation = NoValuation
  /\ backfill = NoBackfill
  /\ rateCache = NoRateCache

\* the ledger and the rate cache as one value threaded through the calls of
\* a step; exchangeCalls counts the exchange calls the step has made
World == [cash |-> cash, holdings |-> holdings, trades |-> trades,
          exchanges |-> exchanges, scenarios |-> scenarios,
          nextId |-> nextId, cached |-> cachedExchangeRate,
          exchangeCalls |-> 0]

----------------------------------------------------------------------------
(* Failures of the remote store.  F is the set of failing operations of   *)
(* the current step: <<site, operation, kind>>, where site names the call *)
(* site, kind "err" is an error answer of the store and kind "throw" a    *)
(* network error that withRetry rethrows after its last attempt.          *)

Failed(F, site, op) == <<site, op, "err">> \in F
Throws(F, site, op) == <<site, op, "throw">> \in F

----------------------------------------------------------------------------
(* SupabaseService *)

\* getCurrencyBalances: the stored row, {0, 0} on an error answer, or throws
GetCurrencyBalances(W, modelId, F, site) ==
  IF Throws(F, site, "getCurrencyBalances")
  THEN [thrown |-> TRUE, krwBalance |-> Zero, usdBalance |-> Zero]
  ELSE IF Failed(F, site, "getCurrencyBalances")
  THEN [thrown |-> FALSE, krwBalance |-> Zero, usdBalance |-> Zero]
  ELSE [thrown |-> FALSE,
        krwBalance |-> Number(W.cash[modelId].krw_balance),
        usdBalance |-> Number(W.cash[modelId].usd_balance)]

\* updateCashBalance: overwrites both balances of the model's row (a NaN is
\* sent as null: the store keeps it, or answers an error)
UpdateCashBalance(W, modelId, krwBalance, usdBalance, F, site) ==
  IF Failed(F, site, "updateCashBalance")
  THEN [W |-> W, ok |-> FALSE]
  ELSE [W |-> [W EXCEPT !.cash[modelId] =
                 [krw_balance |-> krwBalance, usd_balance |-> usdBalance]],
        ok |-> TRUE]

\* recordExchange: appends a row to ai_exchange_history
RecordExchange(W, modelId, exchangeType, krwAmount, usdAmount, exchangeRate, F, site) ==
  IF Failed(F, site, "recordExchange")
  THEN [W |-> W, ok |-> FALSE]
  ELSE [W |-> [W EXCEPT !.exchanges = Append(@,
                 [model_id |-> modelId, exchange_type |-> exchangeType,
                  krw_amount |-> krwAmount, usd_amount |-> usdAmount,
                  exchange_rate |-> exchangeRate])],
        ok |-> TRUE]

NoRow == [id |-> 0, model_id |-> "", ticker |-> "", market |-> "",
          shares |-> 0, avg_price |-> Zero, current_price |-> Zero]

HoldingRows(W, modelId, ticker, mk) ==
  {h \in W.holdings : h.model_id = modelId /\ h.ticker = ticker /\ h.market = mk}

\* getHoldingByTicker: .single() answers an error unless exactly one row
\* matches; every error is returned as null
GetHoldingByTicker(W, modelId, ticker, mk, F, site) ==
  LET rows == HoldingRows(W, modelId, ticker, mk)
  IN IF Failed(F, site, "getHoldingByTicker") \/ Cardinality(rows) # 1
     THEN NoRow
     ELSE CHOOSE h \in rows : TRUE

\* insertHolding: a new row with avg_price = current_price = price
InsertHolding(W, modelId, ticker, mk, shares, price, F, site) ==
  IF Failed(F, site, "insertHolding")
  THEN [W |-> W, ok |-> FALSE]
  ELSE [W |-> [W EXCEPT
                 !.holdings = @ \cup
                   {[id |-> W.nextId, model_id |-> modelId, ticker |-> ticker,
                     market |-> mk, shares |-> shares, avg_price |-> price,
                     current_price |-> price]},
                 !.nextId = @ + 1],
        ok |-> TRUE]

\* updateHolding: sets shares and current_price, and avg_price only when
\* the caller passes one (hasAvg)
UpdateHolding(W, id, shares, hasAvg, avgPrice, currentPrice, F, site) ==
  IF Failed(F, site, "updateHolding")
  THEN [W |-> W, ok |-> FALSE]
  ELSE [W |-> [W EXCEPT !.holdings =
                 {IF h.id = id
                  THEN [h EXCEPT !.shares = shares,
                                 !.avg_price = IF hasAvg THEN avgPrice ELSE @,
                                 !.current_price = currentPrice]
                  ELSE h : h \in @}],
        ok |-> TRUE]

\* deleteHolding: removes the row
DeleteHolding(W, id, F, site) ==
  IF Failed(F, site, "deleteHolding")
  THEN [W |-> W, ok |-> FALSE]
  ELSE [W |-> [W EXCEPT !.holdings = {h \in @ : h.id # id}], ok |-> TRUE]

\* recordTrade: appends a row to ai_trades; null on error
RecordTrade(W, modelId, ticker, mk, tradeType, shares, price, F, site) ==
  IF Failed(F, site, "recordTrade")
  THEN [W |-> W, ok |-> FALSE]
  ELSE [W |-> [W EXCEPT !.trades = Append(@,
                 [model_id |-> modelId, ticker |-> ticker, market |-> mk,
                  trade_type |-> tradeType, shares |-> shares, price |-> price,
                  total_amount |-> RMul(R(shares), price)])],
        ok |-> TRUE]

\* variant of recordHoldScenario that also books the HOLD as a trade
RecordHoldScenarioAsTrade(W, modelId, mk, F, site) ==
  IF Failed(F, site, "recordHoldScenario")
  THEN W
  ELSE [W EXCEPT !.scenarios = Append(@,
          [model_id |-> modelId, market |-> mk, action |-> "HOLD"]),
                 !.trades = Append(@, [model_id |-> modelId])]
\* recordHoldScenario: appends a row; an error answer is ignored
RecordHoldScenario(W, modelId, mk, F, site) ==
  IF Failed(F, site, "recordHoldScenario")
  THEN W
  ELSE [W EXCEPT !.scenarios = Append(@,
          [model_id |-> modelId, market |-> mk, action |-> "HOLD"])]

----------------------------------------------------------------------------
(* StockPriceService *)

\* getExchangeRate.  rx is what happens at this call: kind "hit" (a cached
\* rate younger than the cache duration), "fetch" (upstream answers
\* rx.rate) or "fail" (the fetch fails: the cached rate, or the default
\* when there is none)
GetExchangeRate(W, rx) ==
  IF rx.kind = "hit" THEN [W |-> W, rate |-> W.cached]
  ELSE IF rx.kind = "fail"
  THEN [W |-> W, rate |-> IF W.cached # 0 THEN W.cached ELSE DefaultRate]
  ELSE [W |-> [W EXCEPT !.cached = rx.rate], rate |-> rx.rate]

\* the outcomes getExchangeRate can have in world W
RateOutcomes(W) ==
  {[kind |-> "fail", rate |-> 0]}
  \cup {[kind |-> "fetch", rate |-> r] : r \in Rates}
  \cup (IF W.cached # 0 THEN {[kind |-> "hit", rate |-> 0]} ELSE {})

\* a later call of the same step: the rate fetched by the earlier call is
\* still fresh; a failing upstream keeps failing
Again(rx) == IF rx.kind = "fail" THEN rx ELSE [kind |-> "hit", rate |-> 0]

----------------------------------------------------------------------------
(* TradingService: currency exchange *)

NoExchange == [called |-> FALSE, type |-> "", requested |-> Zero,
               readSource |-> Zero, readTarget |-> Zero, rate |-> 0,
               actual |-> Zero, credited |-> Zero, success |-> FALSE,
               before |-> [krw_balance |-> Zero, usd_balance |-> Zero],
               after |-> [krw_balance |-> Zero, usd_balance |-> Zero]]

\* maxExchangeAmount: 80% of the source balance
MaxExchangeAmount(balance) == RMul(balance, <<MaxExchangeNum, MaxExchangeDen>>)

\* what an exchange call returns (success) or throws, with its call record
ExchangeResult(W, modelId, thrown, success, call) ==
  [W |-> W, thrown |-> thrown, success |-> success,
   call |-> [call EXCEPT !.success = success, !.after = W.cash[modelId]]]

\* exchangeKRWtoUSD from the balance update on: the new balances are
\* computed from the balances read, then the history row is appended
KRWtoUSDWrite(W, modelId, rate, bal, actualKrwAmount, usdAmount, call, F, site) ==
  LET upd == UpdateCashBalance(W, modelId,
                               RSub(bal.krwBalance, actualKrwAmount),
                               RAdd(bal.usdBalance, usdAmount), F, site)
      rec == RecordExchange(upd.W, modelId, "KRW_TO_USD", actualKrwAmount,
                            usdAmount, rate, F, site)
  IN IF ~upd.ok
     THEN ExchangeResult(W, modelId, FALSE, FALSE, call)
     ELSE ExchangeResult(rec.W, modelId, FALSE, TRUE, call)

\* exchangeKRWtoUSD from the balances read on: the cap, the two checks
KRWtoUSDWithBalances(W, rate, bal, modelId, krwAmount, F, site) ==
  LET actualKrwAmount == RMin(krwAmount, MaxExchangeAmount(bal.krwBalance))
      usdAmount == RDiv(actualKrwAmount, R(rate))
      call == [called |-> TRUE, type |-> "KRW_TO_USD", requested |-> krwAmount,
               readSource |-> bal.krwBalance, readTarget |-> bal.usdBalance,
               rate |-> rate, actual |-> actualKrwAmount,
               credited |-> usdAmount, success |-> FALSE,
               before |-> W.cash[modelId], after |-> W.cash[modelId]]
  IN IF bal.thrown
     THEN ExchangeResult(W, modelId, TRUE, FALSE, call)
     ELSE IF RLe(actualKrwAmount, Zero) \/ RLt(bal.krwBalance, actualKrwAmount)
     THEN ExchangeResult(W, modelId, FALSE, FALSE, call)
     ELSE KRWtoUSDWrite(W, modelId, rate, bal, actualKrwAmount, usdAmount,
                        call, F, site)

\* exchangeKRWtoUSD from the rate on: the balances are read
KRWtoUSDAtRate(er, modelId, krwAmount, F, site) ==
  KRWtoUSDWithBalances(er.W, er.rate,
                       GetCurrencyBalances(er.W, modelId, F, site),
                       modelId, krwAmount, F, site)

\* exchangeKRWtoUSD
ExchangeKRWtoUSD(W, modelId, krwAmount, rx, F, site) ==
  KRWtoUSDAtRate(GetExchangeRate([W EXCEPT !.exchangeCalls = @ + 1], rx),
                 modelId, krwAmount, F, site)

\* exchangeUSDtoKRW from the balance update on
USDtoKRWWrite(W, modelId, rate, bal, actualUsdAmount, krwAmount, call, F, site) ==
  LET upd == UpdateCashBalance(W, modelId,
                               RAdd(bal.krwBalance, krwAmount),
                               RSub(bal.usdBalance, actualUsdAmount), F, site)
      rec == RecordExchange(upd.W, modelId, "USD_TO_KRW", krwAmount,
                            actualUsdAmount, rate, F, site)
  IN IF ~upd.ok
     THEN ExchangeResult(W, modelId, FALSE, FALSE, call)
     ELSE ExchangeResult(rec.W, modelId, FALSE, TRUE, call)

\* exchangeUSDtoKRW from the balances read on
USDtoKRWWithBalances(W, rate, bal, modelId, usdAmount, F, site) ==
  LET actualUsdAmount == RMin(usdAmount, MaxExchangeAmount(bal.usdBalance))
      krwAmount == RMul(actualUsdAmount, R(rate))
      call == [called |-> TRUE, type |-> "USD_TO_KRW", requested |-> usdAmount,
               readSource |-> bal.usdBalance, readTarget |-> bal.krwBalance,
               rate |-> rate, actual |-> actualUsdAmount,
               credited |-> krwAmount, success |-> FALSE,
               before |-> W.cash[modelId], after |-> W.cash[modelId]]
  IN IF bal.thrown
     THEN ExchangeResult(W, modelId, TRUE, FALSE, call)
     ELSE IF RLe(actualUsdAmount, Zero) \/ RLt(bal.usdBalance, actualUsdAmount)
     THEN ExchangeResult(W, modelId, FALSE, FALSE, call)
     ELSE USDtoKRWWrite(W, modelId, rate, bal, actualUsdAmount, krwAmount,
                        call, F, site)

\* exchangeUSDtoKRW from the rate on
USDtoKRWAtRate(er, modelId, usdAmount, F, site) ==
  USDtoKRWWithBalances(er.W, er.rate,
                       GetCurrencyBalances(er.W, modelId, F, site),
                       modelId, usdAmount, F, site)

\* exchangeUSDtoKRW
ExchangeUSDtoKRW(W, modelId, usdAmount, rx, F, site) ==
  USDtoKRWAtRate(GetExchangeRate([W EXCEPT !.exchangeCalls = @ + 1], rx),
                 modelId, usdAmount, F, site)

----------------------------------------------------------------------------
(* TradingService: executeTrade *)

NoTrade == [called |-> FALSE, tradeType |-> "", ticker |-> "", market |-> "",
            shares |-> 0, price |-> Zero,
            readKrw |-> Zero, readUsd |-> Zero,
            found |-> NoRow, exchangeAttempts |-> 0,
            auto |-> NoExchange, result |-> "none",
            cashBefore |-> [krw_balance |-> Zero, usd_balance |-> Zero],
            rowsBefore |-> {}, tradesBefore |-> 0]

\* the cash part of a BUY.  ok = FALSE stands for "return null".
CashResult(W, ok, thrown, auto) ==
  [W |-> W, ok |-> ok, thrown |-> thrown, auto |-> auto]

\* the debit of balances that cover the amount
BuyDebit(W, modelId, krwBalance, usdBalance, auto, F) ==
  LET upd == UpdateCashBalance(W, modelId, krwBalance, usdBalance, F, "trade")
  IN CashResult(upd.W, upd.ok, FALSE, auto)

\* US BUY after a successful automatic exchange: the USD debit is computed
\* from the balances read again
BuyWithNewBalances(ex, newBalances, modelId, totalAmount, F) ==
  IF newBalances.thrown
  THEN CashResult(ex.W, FALSE, TRUE, ex.call)
  ELSE BuyDebit(ex.W, modelId, newBalances.krwBalance,
                RSub(newBalances.usdBalance, totalAmount), ex.call, F)

\* variant of BuyAfterExchange that tries the exchange a second time when
\* the first attempt fails
BuyAfterExchangeRetry(ex, modelId, totalAmount, F) ==
  IF ex.thrown THEN CashResult(ex.W, FALSE, TRUE, ex.call)
  ELSE IF ~ex.success
  THEN CashResult(
         ExchangeKRWtoUSD(ex.W, modelId, ex.call.requested,
                          [kind |-> "fail", rate |-> 0], F, "auto").W,
         FALSE, FALSE, ex.call)
  ELSE BuyWithNewBalances(ex, GetCurrencyBalances(ex.W, modelId, F, "reread"),
                          modelId, totalAmount, F)

\* US BUY after the automatic exchange returned
BuyAfterExchange(ex, modelId, totalAmount, F) ==
  IF ex.thrown THEN CashResult(ex.W, FALSE, TRUE, ex.call)
  ELSE IF ~ex.success THEN CashResult(ex.W, FALSE, FALSE, ex.call)
  ELSE BuyWithNewBalances(ex, GetCurrencyBalances(ex.W, modelId, F, "reread"),
                          modelId, totalAmount, F)

\* US BUY with too little USD: the KRW needed for the missing USD with the
\* buffer, and the automatic exchange when the KRW balance covers it
BuyAutoExchange(er, modelId, totalAmount, krwBalance, usdBalance, rx, F) ==
  LET neededUSD == RSub(totalAmount, usdBalance)
      neededKRW == RMul(RMul(neededUSD, R(er.rate)), <<BufferNum, BufferDen>>)
  IN IF RLt(krwBalance, neededKRW)
     THEN CashResult(er.W, FALSE, FALSE, NoExchange)
     ELSE BuyAfterExchange(
            ExchangeKRWtoUSD(er.W, modelId, neededKRW, Again(rx), F, "auto"),
            modelId, totalAmount, F)

\* variant of BuyCash that debits the USD balance whatever the market
BuyCashInUSD(W, modelId, mk, totalAmount, krwBalance, usdBalance, rx, F) ==
  IF mk = "KR" /\ RLt(krwBalance, totalAmount)
  THEN CashResult(W, FALSE, FALSE, NoExchange)
  ELSE BuyDebit(W, modelId, krwBalance, RSub(usdBalance, totalAmount),
                NoExchange, F)

\* the cash part of a BUY: debit of the trading currency, with the
\* automatic KRW->USD exchange when the US-market currency is short
BuyCash(W, modelId, mk, totalAmount, krwBalance, usdBalance, rx, F) ==
  IF mk = "KR"
  THEN IF RLt(krwBalance, totalAmount)
       THEN CashResult(W, FALSE, FALSE, NoExchange)
       ELSE BuyDebit(W, modelId, RSub(krwBalance, totalAmount), usdBalance,
                     NoExchange, F)
  ELSE IF RLt(usdBalance, totalAmount)
       THEN BuyAutoExchange(GetExchangeRate(W, rx), modelId, totalAmount,
                            krwBalance, usdBalance, rx, F)
       ELSE BuyDebit(W, modelId, krwBalance, RSub(usdBalance, totalAmount),
                     NoExchange, F)

\* the new average price of a holding after buying shares at price
NewAvgPrice(existingShares, existingAvgPrice, shares, price) ==
  RDiv(RAdd(RMul(R(existingShares), existingAvgPrice), RMul(R(shares), price)),
       R(existingShares + shares))

\* the holding part of a BUY: update of the existing row or insert
BuyHolding(W, modelId, ticker, mk, shares, price, F) ==
  LET existingHolding == GetHoldingByTicker(W, modelId, ticker, mk, F, "trade")
  IN IF existingHolding # NoRow
     THEN UpdateHolding(W, existingHolding.id,
                        existingHolding.shares + shares, TRUE,
                        NewAvgPrice(existingHolding.shares,
                                    existingHolding.avg_price, shares, price),
                        price, F, "trade")
     ELSE InsertHolding(W, modelId, ticker, mk, shares, price, F, "trade")

\* variant of SellHolding that sets the average price to the sale price
SellHoldingRepriced(W, existingHolding, shares, price, F) ==
  IF existingHolding.shares = shares
  THEN DeleteHolding(W, existingHolding.id, F, "trade")
  ELSE UpdateHolding(W, existingHolding.id, existingHolding.shares - shares,
                     TRUE, price, price, F, "trade")

\* variant of SellHolding that never deletes the row
SellHoldingKept(W, existingHolding, shares, price, F) ==
  UpdateHolding(W, existingHolding.id, existingHolding.shares - shares,
                FALSE, Zero, price, F, "trade")

\* the holding the SELL lowers: deleted when all its shares are sold
SellHolding(W, existingHolding, shares, price, F) ==
  IF existingHolding.shares = shares
  THEN DeleteHolding(W, existingHolding.id, F, "trade")
  ELSE UpdateHolding(W, existingHolding.id, existingHolding.shares - shares,
                     FALSE, Zero, price, F, "trade")

\* variant of Sell that lowers the holding before it credits the cash
SellHoldingFirst(W, modelId, mk, existingHolding, shares, price, totalAmount, krwBalance, usdBalance, F) ==
  IF existingHolding = NoRow \/ existingHolding.shares < shares
  THEN [W |-> W, ok |-> FALSE]
  ELSE LET low == SellHolding(W, existingHolding, shares, price, F)
           upd == IF mk = "KR"
                  THEN UpdateCashBalance(low.W, modelId,
                         RAdd(krwBalance, totalAmount), usdBalance, F, "trade")
                  ELSE UpdateCashBalance(low.W, modelId, krwBalance,
                         RAdd(usdBalance, totalAmount), F, "trade")
       IN IF ~low.ok THEN [W |-> W, ok |-> FALSE]
          ELSE IF ~upd.ok THEN [W |-> low.W, ok |-> FALSE]
          ELSE upd
\* variant of Sell that credits the cash before it looks at the holding
SellCreditedFirst(W, modelId, mk, existingHolding, shares, price, totalAmount, krwBalance, usdBalance, F) ==
  LET upd == IF mk = "KR"
             THEN UpdateCashBalance(W, modelId,
                    RAdd(krwBalance, totalAmount), usdBalance, F, "trade")
             ELSE UpdateCashBalance(W, modelId, krwBalance,
                    RAdd(usdBalance, totalAmount), F, "trade")
  IN IF ~upd.ok THEN [W |-> W, ok |-> FALSE]
     ELSE IF existingHolding = NoRow \/ existingHolding.shares < shares
     THEN [W |-> upd.W, ok |-> FALSE]
     ELSE SellHolding(upd.W, existingHolding, shares, price, F)
\* SELL: credit of the trading currency, then the holding
Sell(W, modelId, mk, existingHolding, shares, price, totalAmount, krwBalance, usdBalance, F) ==
  IF existingHolding = NoRow \/ existingHolding.shares < shares
  THEN [W |-> W, ok |-> FALSE]
  ELSE LET upd == IF mk = "KR"
                  THEN UpdateCashBalance(W, modelId,
                         RAdd(krwBalance, totalAmount), usdBalance, F, "trade")
                  ELSE UpdateCashBalance(W, modelId, krwBalance,
                         RAdd(usdBalance, totalAmount), F, "trade")
       IN IF ~upd.ok THEN [W |-> W, ok |-> FALSE]
          ELSE SellHolding(upd.W, existingHolding, shares, price, F)

\* the call record of executeTrade: its arguments, the balances it read and
\* the ledger it started from
TradeCall(W, bal, modelId, ticker, mk, tradeType, shares, price) ==
  [NoTrade EXCEPT !.called = TRUE, !.tradeType = tradeType,
                  !.ticker = ticker, !.market = mk, !.shares = shares,
                  !.price = price, !.readKrw = bal.krwBalance,
                  !.readUsd = bal.usdBalance, !.result = "null",
                  !.cashBefore = W.cash[modelId],
                  !.rowsBefore = HoldingRows(W, modelId, ticker, mk),
                  !.tradesBefore = Len(W.trades)]

\* what executeTrade returns: "trade" (the recorded trade), "null" or "throw"
TradeResult(W, result, call) ==
  [W |-> W, call |-> [call EXCEPT !.result = result]]

\* the end of executeTrade: the trade record, null when it is not stored
TradeRecorded(rec, call) ==
  TradeResult(rec.W, IF rec.ok THEN "trade" ELSE "null", call)

\* executeTrade after the holding was changed
TradeChanged(changed, call, modelId, ticker, mk, tradeType, shares, price, F) ==
  IF ~changed.ok
  THEN TradeResult(changed.W, "null", call)
  ELSE TradeRecorded(RecordTrade(changed.W, modelId, ticker, mk, tradeType,
                                 shares, price, F, "trade"), call)

\* the BUY branch after its cash part
ExecuteBuy(buy, call, modelId, ticker, mk, shares, price, F) ==
  LET c == [call EXCEPT !.auto = buy.auto,
                        !.exchangeAttempts = buy.W.exchangeCalls]
  IN IF buy.thrown THEN TradeResult(buy.W, "throw", c)
     ELSE IF ~buy.ok THEN TradeResult(buy.W, "null", c)
     ELSE TradeChanged(
            BuyHolding(buy.W, modelId, ticker, mk, shares, price, F),
            [c EXCEPT !.found = GetHoldingByTicker(buy.W, modelId, ticker, mk,
                                                   F, "trade")],
            modelId, ticker, mk, "BUY", shares, price, F)

\* the SELL branch after the holding lookup
ExecuteSell(W, existingHolding, bal, call, modelId, ticker, mk, shares, price, F) ==
  TradeChanged(
    Sell(W, modelId, mk, existingHolding, shares, price,
         RMul(R(shares), price), bal.krwBalance, bal.usdBalance, F),
    [call EXCEPT !.found = existingHolding],
    modelId, ticker, mk, "SELL", shares, price, F)

\* executeTrade after the balances were read
ExecuteTradeWithBalances(W, bal, call, modelId, ticker, mk, tradeType, shares, price, rx, F) ==
  IF bal.thrown THEN TradeResult(W, "throw", call)
  ELSE IF tradeType = "BUY"
  THEN ExecuteBuy(BuyCash(W, modelId, mk, RMul(R(shares), price),
                          bal.krwBalance, bal.usdBalance, rx, F),
                  call, modelId, ticker, mk, shares, price, F)
  ELSE ExecuteSell(W, GetHoldingByTicker(W, modelId, ticker, mk, F, "trade"),
                   bal, call, modelId, ticker, mk, shares, price, F)

\* executeTrade after the balances were read, with its call record
ExecuteTradeRead(W, bal, modelId, ticker, mk, tradeType, shares, price, rx, F) ==
  ExecuteTradeWithBalances(
    W, bal, TradeCall(W, bal, modelId, ticker, mk, tradeType, shares, price),
    modelId, ticker, mk, tradeType, shares, price, rx, F)

\* executeTrade
ExecuteTrade(W, modelId, ticker, mk, tradeType, shares, price, rx, F) ==
  ExecuteTradeRead(W, GetCurrencyBalances(W, modelId, F, "trade"),
                   modelId, ticker, mk, tradeType, shares, price, rx, F)

----------------------------------------------------------------------------
(* AIProviderService: the decision of one model *)

NoArgs == [action |-> "", ticker |-> << >>, shares |-> 0, exchange |-> << >>]

\* arguments of a make_trade_decision tool call: an unknown action, HOLD
\* with and without exchange, well-formed BUY and SELL orders, a BUY with
\* an exchange, and orders without ticker or with shares <= 0
ToolArgs ==
  {[NoArgs EXCEPT !.action = "WAIT"]}
  \cup {[NoArgs EXCEPT !.action = "HOLD", !.exchange = e] :
          e \in {<< >>} \cup {<<x>> : x \in RawExchanges}}
  \cup {[action |-> a, ticker |-> <<t>>, shares |-> n, exchange |-> << >>] :
          a \in {"BUY", "SELL"}, t \in Tickers, n \in {5, 10}}
  \cup {[action |-> "BUY", ticker |-> <<t>>, shares |-> 5, exchange |-> <<x>>] :
          t \in Tickers, x \in RawExchanges}
  \cup {[action |-> "BUY", ticker |-> << >>, shares |-> 5, exchange |-> << >>]}
  \cup {[action |-> "BUY", ticker |-> <<t>>, shares |-> 0, exchange |-> << >>] :
          t \in Tickers}
  \cup {[action |-> "SELL", ticker |-> <<t>>, shares |-> -5, exchange |-> << >>] :
          t \in Tickers}

\* what a decision request can meet: no usable key, a vendor error, a reply
\* without decision, or a make_trade_decision tool call
Responses ==
  {[kind |-> k, args |-> NoArgs] :
     k \in {"no_key", "vendor_error", "no_decision"}}
  \cup {[kind |-> "tool", args |-> a] : a \in ToolArgs}

\* the decision record parseToolDecision builds from the arguments
ToolDecision(args) ==
  <<[action |-> args.action,
     ticker |-> args.ticker,
     shares |-> IF args.shares # 0 THEN <<args.shares>> ELSE << >>,
     exchange |-> IF args.exchange # << >>
                  THEN <<[type |-> args.exchange[1].type,
                          amount |->
                            IF args.exchange[1].amount = << >> THEN NaN
                            ELSE R(args.exchange[1].amount[1])]>>
                  ELSE << >>]>>

\* variant of ParseToolDecision without the check of the action
ParseToolDecisionAnyAction(args) == ToolDecision(args)

\* parseToolDecision: << >> is null
ParseToolDecision(args) ==
  IF args.action \notin {"BUY", "SELL", "HOLD"}
  THEN << >>
  ELSE ToolDecision(args)

\* requestTradeAnalysisWithTools: null unless the vendor made a valid tool call
RequestTradeAnalysisWithTools(resp) ==
  IF resp.kind = "tool" THEN ParseToolDecision(resp.args) ELSE << >>

----------------------------------------------------------------------------
(* TradingService: executeTradeDecision *)

\* step 1 of executeTradeDecision: the exchange the decision asks for
DecisionExchange(W, modelId, d, rx, F) ==
  IF d.exchange = << >>
  THEN [W |-> W, thrown |-> FALSE, success |-> FALSE, call |-> NoExchange]
  ELSE IF d.exchange[1].type = "KRW_TO_USD"
  THEN ExchangeKRWtoUSD(W, modelId, d.exchange[1].amount, rx, F, "decision")
  ELSE ExchangeUSDtoKRW(W, modelId, d.exchange[1].amount, rx, F, "decision")

\* variant of DecisionTradeResult that reports every order that reached
\* executeTrade without a throw as executed
DecisionTradeResultCounted(tr) ==
  [W |-> tr.W, executed |-> tr.call.result # "throw",
   thrown |-> tr.call.result = "throw", quoted |-> TRUE, call |-> tr.call]
\* the result of executeTradeDecision for what executeTrade returned
DecisionTradeResult(tr) ==
  [W |-> tr.W, executed |-> tr.call.result = "trade",
   thrown |-> tr.call.result = "throw", quoted |-> TRUE, call |-> tr.call]

\* step 2 of executeTradeDecision: HOLD, validation, live quote, executeTrade.
\* quote is << >> (null) or <<price>>.
DecisionTrade(W, modelId, d, mk, quote, rx, F) ==
  IF d.action = "HOLD"
  THEN [W |-> RecordHoldScenario(W, modelId, mk, F, "trade"),
        executed |-> FALSE, thrown |-> FALSE, quoted |-> FALSE, call |-> NoTrade]
  ELSE IF d.ticker = << >> \/ d.shares = << >> \/ d.shares[1] <= 0
  THEN [W |-> W, executed |-> FALSE, thrown |-> FALSE, quoted |-> FALSE,
        call |-> NoTrade]
  ELSE IF quote = << >> \/ RLe(quote[1], Zero)
  THEN [W |-> W, executed |-> FALSE, thrown |-> FALSE, quoted |-> TRUE,
        call |-> NoTrade]
  ELSE DecisionTradeResult(ExecuteTrade(W, modelId, d.ticker[1], mk, d.action,
                                        d.shares[1], quote[1], rx, F))

----------------------------------------------------------------------------
(* The store operations each step of a round can reach, and the sets of   *)
(* them that fail in one step: at most MaxFaults failures in a run.       *)

AtMost(points, budget) == {F \in SUBSET points : Cardinality(F) <= budget}

StartPoints == {<<"round", "getAIModels", k>> : k \in {"err", "throw"}}

RequestPoints(d) ==
  {<<"round", "getHoldings", "throw">>,
   <<"round", "getCurrencyBalances", "throw">>}
  \cup (IF d # << >> /\ d[1].exchange # << >>
        THEN {<<"decision", "getCurrencyBalances", "err">>,
              <<"decision", "getCurrencyBalances", "throw">>,
              <<"decision", "updateCashBalance", "err">>,
              <<"decision", "recordExchange", "err">>}
        ELSE {})

AutoPoints ==
  {<<"auto", "getCurrencyBalances", "err">>,
   <<"auto", "getCurrencyBalances", "throw">>,
   <<"auto", "updateCashBalance", "err">>,
   <<"auto", "recordExchange", "err">>,
   <<"reread", "getCurrencyBalances", "err">>,
   <<"reread", "getCurrencyBalances", "throw">>}

TradePoints(d, mk) ==
  IF d.action = "HOLD" THEN {<<"trade", "recordHoldScenario", "err">>}
  ELSE IF d.ticker = << >> \/ d.shares = << >> \/ d.shares[1] <= 0 THEN {}
  ELSE {<<"trade", "getCurrencyBalances", "err">>,
        <<"trade", "getCurrencyBalances", "throw">>,
        <<"trade", "updateCashBalance", "err">>,
        <<"trade", "getHoldingByTicker", "err">>,
        <<"trade", "updateHolding", "err">>,
        <<"trade", "recordTrade", "err">>}
       \cup (IF d.action = "BUY"
             THEN {<<"trade", "insertHolding", "err">>}
             ELSE {<<"trade", "deleteHolding", "err">>})
       \cup (IF d.action = "BUY" /\ mk = "US" THEN AutoPoints ELSE {})

----------------------------------------------------------------------------
(* TradingService: runMarketTradingRound *)

NoReturn == [returned |-> FALSE, threw |-> FALSE, success |-> FALSE,
             tradesExecuted |-> 0, results |-> << >>]

\* a return of the round
RoundReturn(success, executed, res) ==
  [returned |-> TRUE, threw |-> FALSE, success |-> success,
   tradesExecuted |-> executed, results |-> res]

\* variant of RoundCatch that rethrows
RoundCatchRethrow(executed, res) ==
  [returned |-> FALSE, threw |-> TRUE, success |-> FALSE,
   tradesExecuted |-> executed, results |-> res]

\* the catch block of the round: a failed round with the partial results
RoundCatch(executed, res) == RoundReturn(FALSE, executed, res)

\* getAIModels: the active models, [] on an error answer, or throws
GetAIModels(active, F) ==
  IF Throws(F, "round", "getAIModels") THEN [thrown |-> TRUE, models |-> << >>]
  ELSE IF Failed(F, "round", "getAIModels") THEN [thrown |-> FALSE, models |-> << >>]
  ELSE [thrown |-> FALSE, models |-> active]

Snapshot(W) == [cash |-> W.cash, holdings |-> W.holdings, trades |-> W.trades,
                exchanges |-> W.exchanges, scenarios |-> W.scenarios]

NoLast == [model |-> "", market |-> "", phase |-> "none",
           response |-> "", rawAction |-> "", decision |-> << >>,
           pre |-> << >>, x |-> NoExchange, t |-> NoTrade,
           quoted |-> FALSE, executed |-> FALSE]

SetWorld(W) ==
  /\ cash' = W.cash
  /\ holdings' = W.holdings
  /\ trades' = W.trades
  /\ exchanges' = W.exchanges
  /\ scenarios' = W.scenarios
  /\ nextId' = W.nextId
  /\ cachedExchangeRate' = W.cached

\* variant of RoundNoModels that reports the empty round as a success
RoundNoModelsSucceeds == RoundReturn(TRUE, 0, << >>)

\* what the round returns when no model is active
RoundNoModels == RoundReturn(FALSE, 0, << >>)

\* the round starts: results = [], tradesExecuted = 0, the models are
\* loaded and the exchange rate is fetched once for the cache
RoundStart ==
  /\ pc \in {"idle", "done"}
  /\ \E mk \in Markets, active \in ActiveLists,
        F \in AtMost(StartPoints, MaxFaults - faults) :
       \E rx \in RateOutcomes(World) :
         LET got == GetAIModels(active, F)
             er == GetExchangeRate(World, rx)
         IN /\ steps + Len(active) <= MaxSteps
            /\ market' = mk
            /\ tradesAtStart' = Len(trades)
            /\ results' = << >>
            /\ tradesExecuted' = 0
            /\ decision' = << >>
            /\ faults' = faults + Cardinality(F)
            /\ UNCHANGED <<ledgerVars, notifications, steps>>
            /\ UNCHANGED <<sideVars, jobVars>>
            /\ IF got.thrown
               THEN /\ pc' = "done"
                    /\ ret' = RoundCatch(0, << >>)
                    /\ last' = [NoLast EXCEPT !.market = mk, !.phase = "threw"]
                    /\ UNCHANGED <<models, idx, cachedExchangeRate>>
               ELSE IF Len(got.models) = 0
               THEN /\ pc' = "done"
                    /\ ret' = RoundNoModels
                    /\ last' = [NoLast EXCEPT !.market = mk,
                                              !.phase = "no_models",
                                              !.pre = <<Snapshot(World)>>]
                    /\ UNCHANGED <<models, idx, cachedExchangeRate>>
               ELSE /\ pc' = "loop"
                    /\ ret' = NoReturn
                    /\ last' = NoLast
                    /\ models' = got.models
                    /\ idx' = 1
                    /\ cachedExchangeRate' = er.W.cached

\* the trace of an iteration at its start
LastAtRequest(model, resp) ==
  [NoLast EXCEPT !.model = model, !.market = market, !.response = resp.kind,
                 !.rawAction = resp.args.action, !.pre = <<Snapshot(World)>>]

\* the iteration of model with decision d (<< >> is null), where ex is what
\* the decision's exchange did
RoundRequestWith(model, d, base, ex, F) ==
  /\ steps' = steps + 1
  /\ faults' = faults + Cardinality(F)
  /\ UNCHANGED <<market, tradesAtStart, models, notifications>>
  /\ IF Throws(F, "round", "getHoldings")
        \/ Throws(F, "round", "getCurrencyBalances")
     THEN /\ pc' = "done"
          /\ ret' = RoundCatch(tradesExecuted, results)
          /\ last' = [base EXCEPT !.phase = "threw"]
          /\ UNCHANGED <<ledgerVars, cachedExchangeRate, idx,
                         decision, results, tradesExecuted>>
     ELSE IF d = << >>
     THEN /\ results' = Append(results,
               [model |-> model, action |-> "SKIPPED_NO_API_KEY",
                ticker |-> <<"">>])
          /\ idx' = idx + 1
          /\ last' = [base EXCEPT !.phase = "skipped"]
          /\ UNCHANGED <<ledgerVars, cachedExchangeRate, pc, ret,
                         decision, tradesExecuted>>
     ELSE IF ex.thrown
     THEN /\ pc' = "done"
          /\ ret' = RoundCatch(tradesExecuted, results)
          /\ last' = [base EXCEPT !.phase = "threw",
                                  !.decision = d, !.x = ex.call]
          /\ SetWorld(ex.W)
          /\ UNCHANGED <<idx, decision, results, tradesExecuted>>
     ELSE /\ pc' = "execute"
          /\ decision' = d
          /\ last' = [base EXCEPT !.phase = "exchanged",
                                  !.decision = d, !.x = ex.call]
          /\ SetWorld(ex.W)
          /\ UNCHANGED <<ret, idx, results, tradesExecuted>>

\* the decision's exchange, when there is a decision
RequestExchange(model, d, rx, F) ==
  IF d = << >>
  THEN [W |-> World, thrown |-> FALSE, success |-> FALSE, call |-> NoExchange]
  ELSE DecisionExchange(World, model, d[1], rx, F)

\* one loop iteration up to the end of the decision's exchange: the reads
\* for the prompt, the decision request, the skip of a null decision
RoundRequest ==
  /\ pc = "loop"
  /\ idx <= Len(models)
  /\ UNCHANGED <<sideVars, jobVars>>
  /\ \E resp \in Responses :
       \E F \in AtMost(RequestPoints(RequestTradeAnalysisWithTools(resp)),
                       MaxFaults - faults) :
         \E rx \in RateOutcomes(World) :
           /\ (RequestTradeAnalysisWithTools(resp) = << >>
               \/ RequestTradeAnalysisWithTools(resp)[1].exchange = << >>)
                => rx.kind = "fail"
           /\ RoundRequestWith(
                models[idx], RequestTradeAnalysisWithTools(resp),
                LastAtRequest(models[idx], resp),
                RequestExchange(models[idx],
                                RequestTradeAnalysisWithTools(resp), rx, F),
                F)

\* the live prices the quote lookup of a decision can answer: << >> is null
Quotes(d, mk) ==
  IF d.action = "HOLD" \/ d.ticker = << >> \/ d.shares = << >> \/ d.shares[1] <= 0
  THEN {<< >>}
  ELSE {<< >>} \cup {<<R(p)>> : p \in QuotePrices(mk)}

\* the end of the iteration of model with decision d, where tr is what
\* executeTradeDecision did after the exchange
RoundExecuteWith(model, d, tr, F) ==
  /\ SetWorld(tr.W)
  /\ faults' = faults + Cardinality(F)
  /\ UNCHANGED <<market, tradesAtStart, models, notifications, steps>>
  /\ decision' = << >>
  /\ IF tr.thrown
     THEN /\ pc' = "done"
          /\ ret' = RoundCatch(tradesExecuted, results)
          /\ last' = [last EXCEPT !.phase = "threw", !.t = tr.call,
                                  !.quoted = tr.quoted]
          /\ UNCHANGED <<idx, results, tradesExecuted>>
     ELSE /\ pc' = "pause"
          /\ tradesExecuted' = IF tr.executed THEN tradesExecuted + 1
                               ELSE tradesExecuted
          /\ results' = Append(results,
               [model |-> model, action |-> d.action, ticker |-> d.ticker])
          /\ last' = [last EXCEPT !.phase = "executed", !.t = tr.call,
                                  !.quoted = tr.quoted,
                                  !.executed = tr.executed]
          /\ UNCHANGED <<idx, ret>>

\* the rest of the iteration: HOLD or the trade, then the counter and the
\* results entry
RoundExecute ==
  /\ pc = "execute"
  /\ UNCHANGED <<sideVars, jobVars>>
  /\ \E quote \in Quotes(decision[1], market),
        F \in AtMost(TradePoints(decision[1], market), MaxFaults - faults) :
       \E rx \in RateOutcomes(World) :
         /\ ~(decision[1].action = "BUY" /\ market = "US" /\ quote # << >>)
              => rx.kind = "fail"
         /\ (decision[1].action # "HOLD"
             /\ (quote = << >> \/ RLe(quote[1], Zero)))
              => F = {}
         /\ RoundExecuteWith(
              models[idx], decision[1],
              DecisionTrade(World, models[idx], decision[1], market, quote,
                            rx, F),
              F)

\* the one-second pause that ends the iteration of a model with a decision
RoundPause ==
  /\ pc = "pause"
  /\ pc' = "loop"
  /\ idx' = idx + 1
  /\ last' = NoLast
  /\ UNCHANGED <<ledgerVars, cachedExchangeRate, market, tradesAtStart,
                 models, decision,
                 results, tradesExecuted, notifications, ret, steps, faults>>
  /\ UNCHANGED <<sideVars, jobVars>>

\* after the last model: the notification when something was traded, and
\* the return of the successful round
RoundFinish ==
  /\ pc = "loop"
  /\ idx > Len(models)
  /\ pc' = "done"
  /\ notifications' = IF tradesExecuted > 0 THEN notifications + 1
                      ELSE notifications
  /\ ret' = RoundReturn(TRUE, tradesExecuted, results)
  /\ UNCHANGED <<ledgerVars, cachedExchangeRate, market, tradesAtStart,
                 models, idx, decision,
                 results, tradesExecuted, steps, faults, last>>
  /\ UNCHANGED <<sideVars, jobVars>>

----------------------------------------------------------------------------
\* the ledger after the seed data, and no round running
RoundInit ==
  /\ cash = [m \in ModelIds |->
               [krw_balance |-> R(InitialKRW), usd_balance |-> Zero]]
  /\ holdings = {}
  /\ trades = << >>
  /\ exchanges = << >>
  /\ scenarios = << >>
  /\ nextId = 1
  /\ cachedExchangeRate = 0
  /\ pc = "idle"
  /\ market = "KR"
  /\ models = << >>
  /\ idx = 1
  /\ decision = << >>
  /\ results = << >>
  /\ tradesExecuted = 0
  /\ tradesAtStart = 0
  /\ notifications = 0
  /\ ret = NoReturn
  /\ steps = 0
  /\ faults = 0
  /\ last = NoLast

Init ==
  /\ RoundInit
  /\ analysis = NoAnalysis
  /\ retry = NoRetry
  /\ clock = NoClock
  /\ trigger = NoTrigger
  /\ JobsIdle

Next ==
  RoundStart \/ RoundRequest \/ RoundExecute \/ RoundPause \/ RoundFinish

Spec == Init /\ [][Next]_vars

----------------------------------------------------------------------------
(* AIProviderService: one decision request, with and without tools *)

\* the iterations of the tool-calling loop of every vendor
MaxToolIterations == 5

\* the provider of a model row; "other" is a provider the service does not
\* know
Providers == {"openai", "anthropic", "deepseek", "google", "xai", "other"}

\* configured keys as sequences of pieces, << >> is a missing key
Keys ==
  {<< >>, <<"sk-", "proj">>, <<"sk-", "ant-", "api">>, <<"AIza", "Sy">>,
   <<"xai-", "k">>, <<"pk-", "x">>}

\* the prefix getAPIKeyStatus expects of a provider's key
KeyPrefix(provider) ==
  CASE provider = "openai" -> <<"sk-">>
    [] provider = "anthropic" -> <<"sk-", "ant-">>
    [] provider = "deepseek" -> <<"sk-">>
    [] provider = "google" -> <<"AIza">>
    [] provider = "xai" -> <<"xai-">>
    [] OTHER -> << >>

\* String.prototype.startsWith on keys
StartsWith(key, prefix) ==
  /\ Len(key) >= Len(prefix)
  /\ SubSeq(key, 1, Len(prefix)) = prefix

\* variant of GetAPIKeyStatus that accepts every configured key
GetAPIKeyStatusAnyPrefix(provider, key) ==
  IF provider = "other"
  THEN [hasKey |-> FALSE, isValid |-> FALSE]
  ELSE [hasKey |-> key # << >>, isValid |-> key # << >>]

\* getAPIKeyStatus
GetAPIKeyStatus(provider, key) ==
  IF provider = "other"
  THEN [hasKey |-> FALSE, isValid |-> FALSE]
  ELSE [hasKey |-> key # << >>,
        isValid |-> key # << >> /\ StartsWith(key, KeyPrefix(provider))]

\* the text of a vendor's answer: without JSON object, with a broken one,
\* or with an object of the given fields
Texts ==
  {[json |-> j, parsed |-> NoArgs] : j \in {"none", "broken"}}
  \cup {[json |-> "object", parsed |-> a] : a \in ToolArgs \cup {NoArgs}}

\* parseAIResponse: << >> is null
ParseAIResponse(text) ==
  IF text.json # "object" THEN << >>
  ELSE IF text.parsed.action \notin {"BUY", "SELL", "HOLD"} THEN << >>
  ELSE ToolDecision(text.parsed)

NoText == [json |-> "none", parsed |-> NoArgs]

\* what one chat request can meet: the connection fails, a status outside
\* 2xx, a body that is not the vendor's JSON, an answer without message,
\* calls of lookup tools only, a call of make_trade_decision, a tool call
\* whose arguments are no JSON, or text
Replies(mode, provider) ==
  {[kind |-> k, args |-> NoArgs, text |-> NoText] :
     k \in {"network_error", "http_error", "malformed", "empty"}}
  \cup {[kind |-> "text", args |-> NoArgs, text |-> t] : t \in Texts}
  \cup IF mode = "tools"
       THEN {[kind |-> "tools", args |-> NoArgs, text |-> NoText]}
            \cup {[kind |-> "decision", args |-> a, text |-> NoText] :
                    a \in ToolArgs}
            \cup IF provider \in {"openai", "deepseek", "xai"}
                 THEN {[kind |-> "bad_arguments", args |-> NoArgs,
                        text |-> NoText]}
                 ELSE {}
       ELSE {}

NoReply == [kind |-> "none", args |-> NoArgs, text |-> NoText]

\* a decision request before its key check
NewAnalysis(mode, provider, key) ==
  [pc |-> "start", mode |-> mode, provider |-> provider, apiKey |-> key,
   iteration |-> 0, requests |-> 0, reply |-> NoReply,
   returned |-> "none", result |-> << >>]

\* the request returns d (<< >> is null)
AnalysisReturn(a, d) ==
  [a EXCEPT !.pc = "done", !.result = d,
            !.returned = IF d = << >> THEN "null" ELSE "decision"]

\* the catch block of requestTradeAnalysis and requestTradeAnalysisWithTools
AnalysisCatch(a) == AnalysisReturn(a, << >>)

\* the key checks of requestTradeAnalysis and requestTradeAnalysisWithTools
AnalysisCheckKey(a) ==
  IF ~GetAPIKeyStatus(a.provider, a.apiKey).hasKey THEN AnalysisReturn(a, << >>)
  ELSE IF ~GetAPIKeyStatus(a.provider, a.apiKey).isValid
  THEN AnalysisReturn(a, << >>)
  ELSE [a EXCEPT !.pc = "call"]

\* variant of ToolLoopContinues with one more iteration
ToolLoopContinuesOnceMore(iteration) == iteration <= MaxToolIterations

\* the condition of the for loop of callOpenAIWithTools and its siblings
ToolLoopContinues(iteration) == iteration < MaxToolIterations

\* the body of the tool loop after the vendor's answer
ToolTurn(a, reply) ==
  CASE reply.kind \in {"network_error", "http_error", "malformed",
                       "bad_arguments"} -> AnalysisCatch(a)
    [] reply.kind = "empty" -> AnalysisReturn(a, << >>)
    [] reply.kind = "tools" -> [a EXCEPT !.iteration = a.iteration + 1]
    [] reply.kind = "decision" ->
         AnalysisReturn(a, ParseToolDecision(reply.args))
    [] reply.kind = "text" -> AnalysisReturn(a, ParseAIResponse(reply.text))

\* callOpenAI and its siblings, then parseAIResponse
PlainTurn(a, reply) ==
  CASE reply.kind \in {"network_error", "http_error", "malformed"} ->
         AnalysisCatch(a)
    [] reply.kind = "empty" -> AnalysisReturn(a, ParseAIResponse(NoText))
    [] reply.kind = "text" -> AnalysisReturn(a, ParseAIResponse(reply.text))

\* the chat request a turn sends, and its answer
Sent(a, reply) == [a EXCEPT !.requests = a.requests + 1, !.reply = reply]

\* requestTradeAnalysis / requestTradeAnalysisWithTools up to the switch
AnalysisStart ==
  /\ analysis.pc = "start"
  /\ analysis' = AnalysisCheckKey(analysis)
  /\ UNCHANGED <<roundVars, retry, clock, trigger, jobVars>>

\* one chat request and what the code does with its answer
VendorTurn ==
  /\ analysis.pc = "call"
  /\ analysis.mode = "tools" => ToolLoopContinues(analysis.iteration)
  /\ \E reply \in Replies(analysis.mode, analysis.provider) :
       analysis' = IF analysis.mode = "tools"
                   THEN ToolTurn(Sent(analysis, reply), reply)
                   ELSE PlainTurn(Sent(analysis, reply), reply)
  /\ UNCHANGED <<roundVars, retry, clock, trigger, jobVars>>

\* the tool loop ends without decision
ToolLoopExhausted ==
  /\ analysis.pc = "call"
  /\ analysis.mode = "tools"
  /\ ~ToolLoopContinues(analysis.iteration)
  /\ analysis' = AnalysisReturn(analysis, << >>)
  /\ UNCHANGED <<roundVars, retry, clock, trigger, jobVars>>

ProviderInit ==
  /\ RoundInit
  /\ \E mode \in {"plain", "tools"}, provider \in Providers, key \in Keys :
       analysis = NewAnalysis(mode, provider, key)
  /\ retry = NoRetry
  /\ clock = NoClock
  /\ trigger = NoTrigger
  /\ JobsIdle

ProviderNext == AnalysisStart \/ VendorTurn \/ ToolLoopExhausted

ProviderSpec == ProviderInit /\ [][ProviderNext]_vars

\* a decision request is never abandoned between two steps
ProviderFairSpec == ProviderSpec /\ WF_vars(ProviderNext)

----------------------------------------------------------------------------
(* SupabaseService: withRetry and the operations it wraps *)

MAX_RETRIES == 3
RETRY_DELAY_MS == 1000

\* the reads that run inside withRetry, and two operations that do not
RetriedOperations ==
  {"getAIModels", "getCurrencyBalances", "getHoldings", "getAllHoldings"}
DirectOperations == {"getHoldingByTicker", "updateCashBalance"}

\* error messages as sequences of pieces
Messages ==
  {<<"TypeError: ", "fetch failed">>, <<"read ", "ECONNRESET">>,
   <<"connect ", "ETIMEDOUT">>, <<"permission denied">>}

\* String.prototype.includes on messages
Includes(message, piece) == \E i \in 1..Len(message) : message[i] = piece

NoError == [isError |-> FALSE, message |-> << >>]

\* what the store client can do with a query: answer with data, answer
\* with an error object, or reject with a thrown value (an Error or not)
StoreAnswers ==
  {[kind |-> "data", error |-> NoError]}
  \cup {[kind |-> "error", error |-> [isError |-> FALSE, message |-> m]] :
          m \in Messages}
  \cup {[kind |-> "rejects", error |-> [isError |-> e, message |-> m]] :
          e \in BOOLEAN, m \in Messages}

\* the empty default of an operation
DefaultOf(operation) ==
  CASE operation \in {"getAIModels", "getHoldings", "getAllHoldings"} -> "[]"
    [] operation = "getCurrencyBalances" -> "{0, 0}"
    [] operation = "getHoldingByTicker" -> "null"
    [] operation = "updateCashBalance" -> "false"

\* the body of a read that runs inside withRetry: it throws the error
\* answers it takes for network errors and answers the others with its
\* default
RetriedOperation(operation, answer) ==
  IF answer.kind = "rejects"
  THEN [kind |-> "throw", error |-> answer.error, value |-> ""]
  ELSE IF answer.kind = "error"
  THEN IF Includes(answer.error.message, "fetch failed")
          \/ Includes(answer.error.message, "ECONNRESET")
       THEN [kind |-> "throw",
             error |-> [isError |-> TRUE, message |-> answer.error.message],
             value |-> ""]
       ELSE [kind |-> "value", error |-> NoError,
             value |-> DefaultOf(operation)]
  ELSE [kind |-> "value", error |-> NoError, value |-> "data"]

\* getHoldingByTicker and updateCashBalance
DirectOperation(operation, answer) ==
  IF answer.kind = "error"
  THEN [kind |-> "value", error |-> NoError, value |-> DefaultOf(operation)]
  ELSE [kind |-> "value", error |-> NoError,
        value |-> IF operation = "updateCashBalance" THEN "true" ELSE "data"]

\* isNetworkError of withRetry
IsNetworkError(error) ==
  /\ error.isError
  /\ \/ Includes(error.message, "fetch failed")
     \/ Includes(error.message, "ECONNRESET")
     \/ Includes(error.message, "ETIMEDOUT")

\* the condition under which withRetry waits and attempts again
RetryAgain(error, attempt) == IsNetworkError(error) /\ attempt < MAX_RETRIES

\* a call of operation before its first attempt
NewCall(operation) ==
  [pc |-> "attempt", operation |-> operation, attempt |-> 1,
   answers |-> << >>, errors |-> << >>, delays |-> << >>,
   outcome |-> "none", value |-> "", thrown |-> NoError]

\* one attempt of withRetry with outcome out of the operation
AfterAttempt(r, out) ==
  IF out.kind = "value"
  THEN [r EXCEPT !.pc = "done", !.outcome = "value", !.value = out.value]
  ELSE IF RetryAgain(out.error, r.attempt)
  THEN [r EXCEPT !.pc = "wait", !.errors = Append(r.errors, out.error)]
  ELSE [r EXCEPT !.pc = "done", !.outcome = "throw",
                 !.errors = Append(r.errors, out.error),
                 !.thrown = out.error]

\* the store client's answer to the query of an attempt
Answered(r, answer) == [r EXCEPT !.answers = Append(r.answers, answer.kind)]

\* try { return await operation() } catch ...
RetryAttempt ==
  /\ retry.pc = "attempt"
  /\ retry.operation \in RetriedOperations
  /\ \E answer \in StoreAnswers :
       retry' = AfterAttempt(Answered(retry, answer),
                             RetriedOperation(retry.operation, answer))
  /\ UNCHANGED <<roundVars, analysis, clock, trigger, jobVars>>

\* the delay before the next attempt
RetryWait ==
  /\ retry.pc = "wait"
  /\ retry' = [retry EXCEPT
                 !.pc = "attempt",
                 !.delays = Append(retry.delays,
                                   RETRY_DELAY_MS * retry.attempt),
                 !.attempt = retry.attempt + 1]
  /\ UNCHANGED <<roundVars, analysis, clock, trigger, jobVars>>

\* an operation that does not run inside withRetry
DirectCall ==
  /\ retry.pc = "attempt"
  /\ retry.operation \in DirectOperations
  /\ \E answer \in {a \in StoreAnswers : a.kind # "rejects"} :
       retry' = AfterAttempt(Answered(retry, answer),
                             DirectOperation(retry.operation, answer))
  /\ UNCHANGED <<roundVars, analysis, clock, trigger, jobVars>>

RetryInit ==
  /\ RoundInit
  /\ analysis = NoAnalysis
  /\ \E operation \in RetriedOperations \cup DirectOperations :
       retry = NewCall(operation)
  /\ clock = NoClock
  /\ trigger = NoTrigger
  /\ JobsIdle

RetryNext == RetryAttempt \/ RetryWait \/ DirectCall

RetrySpec == RetryInit /\ [][RetryNext]_vars

----------------------------------------------------------------------------
(* TradingSchedulerService: isUSDaylightSavingTime and isMarketOpen *)

(* An instant is a number of minutes since March 1, 00:00 UTC, of its     *)
(* year.  A year is given by the weekday of its March 1 (0 is Sunday);    *)
(* November 1 is 245 days later and falls on the same weekday.  The       *)
(* server's time zone is its offset from UTC in minutes.                  *)

\* days of the calendar around each transition that the model walks through
WindowDays == 16
\* minutes between two runs of the scheduler
StepMinutes == 30

MinutesPerDay == 1440
\* days from March 1 to November 1
NovemberFirst == 245
\* UTC+9, UTC-5 and UTC-4 in minutes
KstOffset == 540
EstOffset == -300
EdtOffset == -240

\* the zones a server runs in: UTC and Korean time
ServerZones == {0, KstOffset}
\* the two copies of the scheduler
Versions == {"part_000", "trading-scheduler.service"}
\* the first instants of the walks: March 3 and October 29, 00:00 UTC
WalkStarts == {2 * MinutesPerDay, (NovemberFirst - 3) * MinutesPerDay}

\* wall clock of instant t in the zone of offset off
WallMinutes(t, off) == (t + off) % MinutesPerDay
WallDay(t, off) == (t + off) \div MinutesPerDay
DayOfWeek(w, t, off) == (w + WallDay(t, off)) % 7

\* new Date(year, month, day, 2, 0, 0) in the server's zone, as an instant
ServerDate(day, zone) == day * MinutesPerDay + 120 - zone

\* isUSDaylightSavingTime
IsUSDaylightSavingTime(c) ==
  LET dstStart == ServerDate(7 + ((7 - c.w) % 7), c.zone)
      dstEnd == ServerDate(NovemberFirst + ((7 - c.w) % 7), c.zone)
  IN c.t >= dstStart /\ c.t < dstEnd

\* the Korean session: 09:00 to 15:00
KrWindow(currentTime) == currentTime >= 9 * 60 /\ currentTime < 15 * 60

\* the US session in Korean time
UsWindow(currentTime, isDST) ==
  IF isDST
  THEN currentTime >= 22 * 60 + 30 \/ currentTime < 5 * 60
  ELSE currentTime >= 23 * 60 + 30 \/ currentTime < 6 * 60

\* isMarketOpen of part_000: Korean time and the US calendar from UTC
IsMarketOpen(c, mk) ==
  IF mk = "KR"
  THEN /\ DayOfWeek(c.w, c.t, KstOffset) \notin {0, 6}
       /\ KrWindow(WallMinutes(c.t, KstOffset))
  ELSE /\ DayOfWeek(c.w, c.t, IF IsUSDaylightSavingTime(c)
                              THEN EdtOffset ELSE EstOffset) \notin {0, 6}
       /\ UsWindow(WallMinutes(c.t, KstOffset), IsUSDaylightSavingTime(c))

\* isMarketOpen of trading-scheduler.service.ts: the server's wall clock
IsMarketOpenServerTime(c, mk) ==
  /\ DayOfWeek(c.w, c.t, c.zone) \notin {0, 6}
  /\ IF mk = "KR"
     THEN KrWindow(WallMinutes(c.t, c.zone))
     ELSE UsWindow(WallMinutes(c.t, c.zone), IsUSDaylightSavingTime(c))

\* isMarketOpen of the copy the server runs
IsMarketOpenOf(c, mk) ==
  IF c.version = "part_000" THEN IsMarketOpen(c, mk)
  ELSE IsMarketOpenServerTime(c, mk)

\* the server's clock at the start of a walk
NewClock(version, w, zone, start) ==
  [pc |-> "run", version |-> version, w |-> w, zone |-> zone,
   start |-> start, t |-> start, kr |-> << >>, us |-> << >>]

\* isMarketOpen('KR') at the current instant
CheckKR ==
  /\ clock.pc = "run"
  /\ clock.kr = << >>
  /\ clock' = [clock EXCEPT !.kr = <<IsMarketOpenOf(clock, "KR")>>]
  /\ UNCHANGED <<roundVars, analysis, retry, trigger, jobVars>>

\* isMarketOpen('US') at the current instant
CheckUS ==
  /\ clock.pc = "run"
  /\ clock.us = << >>
  /\ clock' = [clock EXCEPT !.us = <<IsMarketOpenOf(clock, "US")>>]
  /\ UNCHANGED <<roundVars, analysis, retry, trigger, jobVars>>

\* time passes
Tick ==
  /\ clock.pc = "run"
  /\ clock.t + StepMinutes < clock.start + WindowDays * MinutesPerDay
  /\ clock' = [clock EXCEPT !.t = clock.t + StepMinutes,
                            !.kr = << >>, !.us = << >>]
  /\ UNCHANGED <<roundVars, analysis, retry, trigger, jobVars>>

ClockInit ==
  /\ RoundInit
  /\ analysis = NoAnalysis
  /\ retry = NoRetry
  /\ \E version \in Versions, w \in 0..6, zone \in ServerZones,
        start \in WalkStarts :
       clock = NewClock(version, w, zone, start)
  /\ trigger = NoTrigger
  /\ JobsIdle

ClockNext == CheckKR \/ CheckUS \/ Tick

ClockSpec == ClockInit /\ [][ClockNext]_vars

----------------------------------------------------------------------------
(* TradingController.triggerTrading and the scheduler's tick: the rounds  *)
(* they start, each reduced to the balance update of one trade of one     *)
(* model *)

\* the :market parameter of a request
MarketParams == {"KR", "US", "JP", "kr"}
\* who starts a round
Starters == {"tick", "post"}

NoRound == [pc |-> "none", market |-> "", read |-> << >>, result |-> NoReturn]

\* the cash row of the model, the sum of the changes its trades made to
\* each balance (debits are negative), the tick, the request and the round
\* of each starter
NewTrigger ==
  [pc |-> "run",
   cash |-> [krw |-> 1000, usd |-> 1000],
   debits |-> [krw |-> 0, usd |-> 0],
   tick |-> [pc |-> "idle", usOpen |-> FALSE, rounds |-> 0],
   post |-> [pc |-> "idle", market |-> "", status |-> 0, success |-> FALSE,
             rounds |-> 0],
   round |-> [s \in Starters |-> NoRound]]

\* runMarketTradingRound(mk) is called
StartRound(g, s, mk) ==
  [g EXCEPT !.round[s] = [pc |-> "read", market |-> mk, read |-> << >>,
                          result |-> NoReturn]]

\* the balances executeTrade writes for a buy of 100 in the market's currency
Debited(read, mk) ==
  IF mk = "KR" THEN [read EXCEPT !.krw = @ - 100]
  ELSE [read EXCEPT !.usd = @ - 100]

\* handleTradingSchedule up to its first round
HandleTradingSchedule ==
  /\ trigger.pc = "run"
  /\ trigger.tick.pc = "idle"
  /\ \E krOpen \in BOOLEAN, usOpen \in BOOLEAN :
       trigger' =
         IF krOpen
         THEN StartRound([trigger EXCEPT !.tick.pc = "kr",
                                         !.tick.usOpen = usOpen,
                                         !.tick.rounds = 1],
                         "tick", "KR")
         ELSE IF usOpen
         THEN StartRound([trigger EXCEPT !.tick.pc = "us",
                                         !.tick.usOpen = usOpen,
                                         !.tick.rounds = 1],
                         "tick", "US")
         ELSE [trigger EXCEPT !.tick.pc = "done"]
  /\ UNCHANGED <<roundVars, analysis, retry, clock, jobVars>>

\* handleTradingSchedule after the round it awaited
ScheduleContinues ==
  /\ trigger.pc = "run"
  /\ trigger.tick.pc \in {"kr", "us"}
  /\ trigger.round["tick"].pc = "return"
  /\ trigger' =
       IF trigger.tick.pc = "kr" /\ trigger.tick.usOpen
       THEN StartRound([trigger EXCEPT !.tick.pc = "us",
                                       !.tick.rounds = @ + 1],
                       "tick", "US")
       ELSE [trigger EXCEPT !.tick.pc = "done", !.round["tick"] = NoRound]
  /\ UNCHANGED <<roundVars, analysis, retry, clock, jobVars>>

\* triggerTrading up to the call of triggerTradingRound
TriggerTrading ==
  /\ trigger.pc = "run"
  /\ trigger.post.pc = "idle"
  /\ \E mk \in MarketParams :
       trigger' =
         IF mk # "KR" /\ mk # "US"
         THEN [trigger EXCEPT !.post.pc = "answered", !.post.market = mk,
                              !.post.status = 400]
         ELSE StartRound([trigger EXCEPT !.post.pc = "round",
                                         !.post.market = mk,
                                         !.post.rounds = 1],
                         "post", mk)
  /\ UNCHANGED <<roundVars, analysis, retry, clock, jobVars>>

\* the answer of triggerTrading to the result of the round
TriggerAnswer(result) ==
  IF result.threw
  THEN [status |-> 500, success |-> FALSE]
  ELSE [status |-> 201, success |-> result.success]

\* triggerTrading after the round it awaited
TriggerTradingAnswers ==
  /\ trigger.pc = "run"
  /\ trigger.post.pc = "round"
  /\ trigger.round["post"].pc = "return"
  /\ trigger' =
       [trigger EXCEPT
          !.post.pc = "answered",
          !.post.status = TriggerAnswer(trigger.round["post"].result).status,
          !.post.success = TriggerAnswer(trigger.round["post"].result).success]
  /\ UNCHANGED <<roundVars, analysis, retry, clock, jobVars>>

\* executeTrade reads the balances; a read that throws ends the round in
\* its catch block
RoundGetBalances ==
  /\ trigger.pc = "run"
  /\ \E s \in Starters, thrown \in BOOLEAN :
       /\ trigger.round[s].pc = "read"
       /\ trigger' =
            IF thrown
            THEN [trigger EXCEPT !.round[s].pc = "return",
                                 !.round[s].result = RoundCatch(0, << >>)]
            ELSE [trigger EXCEPT !.round[s].pc = "write",
                                 !.round[s].read = <<trigger.cash>>]
  /\ UNCHANGED <<roundVars, analysis, retry, clock, jobVars>>

\* executeTrade writes the balances it computed from the ones it read, and
\* the round returns
RoundUpdateBalance ==
  /\ trigger.pc = "run"
  /\ \E s \in Starters :
       /\ trigger.round[s].pc = "write"
       /\ trigger' =
            [trigger EXCEPT
               !.cash = Debited(trigger.round[s].read[1],
                                trigger.round[s].market),
               !.debits = Debited(trigger.debits, trigger.round[s].market),
               !.round[s].pc = "return",
               !.round[s].result = RoundReturn(TRUE, 1, << >>)]
  /\ UNCHANGED <<roundVars, analysis, retry, clock, jobVars>>

TriggerInit ==
  /\ RoundInit
  /\ analysis = NoAnalysis
  /\ retry = NoRetry
  /\ clock = NoClock
  /\ trigger = NewTrigger
  /\ JobsIdle

TriggerNext ==
  \/ HandleTradingSchedule
  \/ ScheduleContinues
  \/ TriggerTrading
  \/ TriggerTradingAnswers
  \/ RoundGetBalances
  \/ RoundUpdateBalance

TriggerSpec == TriggerInit /\ [][TriggerNext]_vars

----------------------------------------------------------------------------
(* TradingSchedulerService: the tick and its valuation job                 *)
(* TradingService: recordAllPortfolioValues                                *)

\* recordPortfolioValuesWithRetry(retries = 2), 5 seconds before a re-run
ValuationRetries == 2
ValuationDelayMs == 5000

\* the models getAIModels answers to the valuation job
ValuedModels == <<"gpt", "claude">>
\* rows of ai_portfolios the job may find
PortfolioRows ==
  {[id |-> 1, model_id |-> "gpt", ticker |-> "005930", market |-> "KR",
    shares |-> 5, avg_price |-> 50000, current_price |-> 50000],
   [id |-> 2, model_id |-> "gpt", ticker |-> "AAPL", market |-> "US",
    shares |-> 2, avg_price |-> 100, current_price |-> 100],
   [id |-> 3, model_id |-> "claude", ticker |-> "AAPL", market |-> "US",
    shares |-> 1, avg_price |-> 100, current_price |-> 120]}
\* rows of ai_cash_balances the job may find
CashRows ==
  {[gpt |-> g, claude |-> [krw_balance |-> 500000, usd_balance |-> 200]] :
     g \in {[krw_balance |-> InitialKRW, usd_balance |-> 0],
            [krw_balance |-> 250000, usd_balance |-> 100]}}
\* the live price a quote of the ticker carries
FreshPrice(ticker) == IF ticker = "AAPL" THEN 150 ELSE 60000
\* rates getExchangeRate may answer to the job
ValuationRates == {1300, DefaultRate}

\* the store and upstream calls of one run that can fail
ValuationPoints ==
  {<<"job", "getAllHoldings", k>> : k \in {"err", "throw"}}
  \cup {<<"job", "updateHoldingCurrentPrice", "err">>}
  \cup {<<"job", "getAIModels", k>> : k \in {"err", "throw"}}
  \cup {<<m, op, k>> : m \in ModelIds,
                       op \in {"getHoldings", "getCurrencyBalances"},
                       k \in {"err", "throw"}}
  \cup {<<m, "recordPortfolioValue", "err">> : m \in ModelIds}

\* updateAllHoldingsWithCurrentPrices after getAllHoldings answered: the
\* rows whose ticker has a quote with a price > 0 get it as current price
RefreshPrices(rows, quoted, F) ==
  IF Failed(F, "job", "getAllHoldings")
     \/ Failed(F, "job", "updateHoldingCurrentPrice")
  THEN rows
  ELSE {IF h.ticker \in quoted /\ FreshPrice(h.ticker) > 0
        THEN [h EXCEPT !.current_price = FreshPrice(h.ticker)]
        ELSE h : h \in rows}

\* toAIHolding: totalValue is shares at the current price, at the average
\* price when the row has no current price
ToAIHolding(db) ==
  [id |-> db.id, market |-> db.market, shares |-> db.shares,
   totalValue |-> IF db.current_price # 0
                  THEN db.current_price * db.shares
                  ELSE db.avg_price * db.shares]

\* getHoldings of the valuation job: [] on an error answer
ValuationHoldings(rows, modelId, F) ==
  IF Failed(F, modelId, "getHoldings") THEN {}
  ELSE {ToAIHolding(h) : h \in {r \in rows : r.model_id = modelId}}

\* getCurrencyBalances of the valuation job: {0, 0} on an error answer
ValuationBalances(cashRows, modelId, F) ==
  IF Failed(F, modelId, "getCurrencyBalances")
  THEN [krwBalance |-> 0, usdBalance |-> 0]
  ELSE [krwBalance |-> cashRows[modelId].krw_balance,
        usdBalance |-> cashRows[modelId].usd_balance]

\* holdings.reduce: US holdings are converted at the rate, KR ones are not
RECURSIVE HoldingsValue(_, _)
HoldingsValue(hs, exchangeRate) ==
  IF hs = {} THEN 0
  ELSE LET h == CHOOSE x \in hs : TRUE
       IN (IF h.market = "US" THEN h.totalValue * exchangeRate
           ELSE h.totalValue)
          + HoldingsValue(hs \ {h}, exchangeRate)

\* totalValue of a model: cash + holdingsValue
TotalValue(balances, hs, exchangeRate) ==
  balances.krwBalance + balances.usdBalance * exchangeRate
  + HoldingsValue(hs, exchangeRate)

\* the body of the loop of recordAllPortfolioValues for one model: a throw
\* is caught and a refused insert is logged, both without a point
ValueModel(points, rows, cashRows, modelId, exchangeRate, F) ==
  IF Throws(F, modelId, "getHoldings")
     \/ Throws(F, modelId, "getCurrencyBalances")
     \/ Failed(F, modelId, "recordPortfolioValue")
  THEN points
  ELSE Append(points,
         [model_id |-> modelId,
          total_value |-> TotalValue(ValuationBalances(cashRows, modelId, F),
                                     ValuationHoldings(rows, modelId, F),
                                     exchangeRate)])

\* the loop of recordAllPortfolioValues over the models from the i-th on
RECURSIVE ValueModels(_, _, _, _, _, _, _)
ValueModels(points, rows, cashRows, ms, i, exchangeRate, F) ==
  IF i > Len(ms) THEN points
  ELSE ValueModels(ValueModel(points, rows, cashRows, ms[i], exchangeRate, F),
                   rows, cashRows, ms, i + 1, exchangeRate, F)

\* recordAllPortfolioValues after the prices were refreshed
ValueAfterRefresh(v, rows, exchangeRate, F) ==
  IF Throws(F, "job", "getAIModels")
  THEN [thrown |-> TRUE, rows |-> rows, points |-> v.points]
  ELSE [thrown |-> FALSE, rows |-> rows,
        points |-> ValueModels(v.points, rows, v.cash,
                               IF Failed(F, "job", "getAIModels") THEN << >>
                               ELSE ValuedModels,
                               1, exchangeRate, F)]

\* recordAllPortfolioValues: what it throws or leaves in the store
RecordAllPortfolioValues(v, quoted, exchangeRate, F) ==
  IF Throws(F, "job", "getAllHoldings")
  THEN [thrown |-> TRUE, rows |-> v.rows, points |-> v.points]
  ELSE ValueAfterRefresh(v, RefreshPrices(v.rows, quoted, F), exchangeRate, F)

NoRun == [rate |-> 0, F |-> {}, rows |-> {}, before |-> 0, thrown |-> FALSE]

\* a tick over the given store: nothing checked, nothing run
NewValuation(rows, cashRows) ==
  [pc |-> "tick", krOpen |-> FALSE, usOpen |-> FALSE, rounds |-> << >>,
   rows |-> rows, cash |-> cashRows, points |-> << >>,
   attempt |-> 0, runs |-> 0, failures |-> 0, waitedMs |-> 0,
   run |-> NoRun]

\* variant of RetryValuation with one more run
RetryValuationOnceMore(attempt, thrown) ==
  IF ~thrown THEN "returned"
  ELSE IF attempt <= ValuationRetries + 1 THEN "wait"
  ELSE "returned"

\* recordPortfolioValuesWithRetry after a run: return on success, wait
\* before the next run while attempt <= retries, give up after the last
RetryValuation(attempt, thrown) ==
  IF ~thrown THEN "returned"
  ELSE IF attempt <= ValuationRetries THEN "wait"
  ELSE "returned"

\* handleTradingSchedule up to the valuation job: the two market checks,
\* each with its round when the market is open (runMarketTradingRound
\* catches what its body throws and returns)
TickChecksMarkets ==
  /\ valuation.pc = "tick"
  /\ \E krOpen \in BOOLEAN, usOpen \in BOOLEAN :
       valuation' =
         [valuation EXCEPT
            !.pc = "run", !.krOpen = krOpen, !.usOpen = usOpen,
            !.rounds = (IF krOpen THEN <<"KR">> ELSE << >>)
                       \o (IF usOpen THEN <<"US">> ELSE << >>),
            !.attempt = 1]
  /\ UNCHANGED <<roundVars, sideVars, backfill, rateCache>>

\* what one run of the job leaves: the store, the counters, the next step
AfterRun(v, out, exchangeRate, F) ==
  [v EXCEPT !.pc = RetryValuation(v.attempt, out.thrown),
            !.rows = out.rows,
            !.points = out.points,
            !.runs = @ + 1,
            !.failures = IF out.thrown THEN @ + 1 ELSE @,
            !.run = [rate |-> exchangeRate, F |-> F, rows |-> out.rows,
                     before |-> Len(v.points), thrown |-> out.thrown]]

\* one run of recordAllPortfolioValues inside recordPortfolioValuesWithRetry
ValuationRun ==
  /\ valuation.pc = "run"
  /\ \E quoted \in SUBSET {"005930", "AAPL"}, exchangeRate \in ValuationRates,
        F \in AtMost(ValuationPoints, MaxFaults) :
       valuation' = AfterRun(valuation,
                             RecordAllPortfolioValues(valuation, quoted,
                                                      exchangeRate, F),
                             exchangeRate, F)
  /\ UNCHANGED <<roundVars, sideVars, backfill, rateCache>>

\* the five seconds before the next run
ValuationWait ==
  /\ valuation.pc = "wait"
  /\ valuation' = [valuation EXCEPT !.pc = "run", !.attempt = @ + 1,
                                    !.waitedMs = @ + ValuationDelayMs]
  /\ UNCHANGED <<roundVars, sideVars, backfill, rateCache>>

ValuationInit ==
  /\ RoundInit
  /\ analysis = NoAnalysis
  /\ retry = NoRetry
  /\ clock = NoClock
  /\ trigger = NoTrigger
  /\ \E rows \in SUBSET PortfolioRows, cashRows \in CashRows :
       valuation = NewValuation(rows, cashRows)
  /\ backfill = NoBackfill
  /\ rateCache = NoRateCache

ValuationNext == TickChecksMarkets \/ ValuationRun \/ ValuationWait

ValuationSpec == ValuationInit /\ [][ValuationNext]_vars

\* the ticks over one store: all rows, the first of the cash rows
TickInit ==
  /\ ValuationInit
  /\ valuation.rows = PortfolioRows
  /\ valuation.cash.gpt.usd_balance = 0

\* the scheduler awaits every step of the handler, and every awaited call
\* returns or throws
TickSpec == TickInit /\ [][ValuationNext]_vars /\ WF_vars(ValuationNext)

----------------------------------------------------------------------------
(* fillMissingPortfolioHistory                                             *)

\* the last day of the history window: the days are 0..LastDay, LastDay is
\* today
LastDay == 3
\* minute of the day of the points the job appends: T15:00:00.000Z
FillMinute == 900
\* minutes of the day at which the valuation job left points
PointMinutes == {30, 390}

\* the value the valuation job recorded on the day at the minute
RecordedValue(day, minute) == 1000 + 100 * day + (minute \div 30)

\* the stored points of a model with the given number of points on each day
PointsOf(modelId, perDay) ==
  {[model_id |-> modelId, day |-> p[1], minute |-> p[2],
    total_value |-> RecordedValue(p[1], p[2])] :
     p \in {q \in (0..LastDay) \X PointMinutes :
              perDay[q[1]] = 2 \/ (perDay[q[1]] = 1 /\ q[2] = 30)}}

\* the store calls of one run that can fail
BackfillPoints ==
  {<<"job", "getPortfolioHistory", "err">>}
  \cup {<<m, "recordPortfolioValueAt", "err">> : m \in ModelIds}

\* getPortfolioHistory(365): the rows in recorded_at order, [] on an error
GetPortfolioHistory(store, F) ==
  IF Failed(F, "job", "getPortfolioHistory") THEN {} ELSE store

\* sortedHistory.find(h => h.recordedAt.startsWith(dateStr)): the earliest
\* point of the day
FirstOfDay(modelHistory, day) ==
  CHOOSE h \in modelHistory :
    /\ h.day = day
    /\ \A g \in modelHistory : g.day = day => h.minute <= g.minute

\* sortedHistory[0]: the earliest point of the model
FirstPoint(modelHistory) ==
  CHOOSE h \in modelHistory :
    \A g \in modelHistory :
      h.day < g.day \/ (h.day = g.day /\ h.minute <= g.minute)

\* recordPortfolioValueAt: the row appended, nothing on an error answer
RecordPortfolioValueAt(store, modelId, day, totalValue, F) ==
  IF Failed(F, modelId, "recordPortfolioValueAt") THEN store
  ELSE store \cup {[model_id |-> modelId, day |-> day, minute |-> FillMinute,
                    total_value |-> totalValue]}

\* the loop over the dates from d to today: d.getDay() is the weekday in
\* the server's zone of 00:00 UTC of the date
RECURSIVE FillFrom(_, _, _, _, _, _, _)
FillFrom(store, modelHistory, modelId, d, previousValue, b, F) ==
  IF d > LastDay THEN store
  ELSE IF DayOfWeek(b.w, d * MinutesPerDay, b.zone) \in {0, 6}
  THEN FillFrom(store, modelHistory, modelId, d + 1, previousValue, b, F)
  ELSE IF \A h \in modelHistory : h.day # d
  THEN FillFrom(RecordPortfolioValueAt(store, modelId, d, previousValue, F),
                modelHistory, modelId, d + 1, previousValue, b, F)
  ELSE FillFrom(store, modelHistory, modelId, d + 1,
                FirstOfDay(modelHistory, d).total_value, b, F)

\* the body of the loop over the models: a model without history is left
FillModel(store, modelHistory, modelId, b, F) ==
  IF modelHistory = {} THEN store
  ELSE FillFrom(store, modelHistory, modelId, FirstPoint(modelHistory).day,
                FirstPoint(modelHistory).total_value, b, F)

\* the loop over the models from the i-th on, over the history read once
RECURSIVE FillModels(_, _, _, _, _, _)
FillModels(store, history, ms, i, b, F) ==
  IF i > Len(ms) THEN store
  ELSE FillModels(FillModel(store, {h \in history : h.model_id = ms[i]},
                            ms[i], b, F),
                  history, ms, i + 1, b, F)

\* fillMissingPortfolioHistory: the store it leaves
FillMissingPortfolioHistory(b, F) ==
  FillModels(b.store, GetPortfolioHistory(b.store, F), ValuedModels, 1, b, F)

\* the store before any run: day 0 has weekday w in UTC
NewBackfill(w, zone, store) ==
  [pc |-> "ready", w |-> w, zone |-> zone, store |-> store,
   before |-> store, runs |-> 0, clean |-> TRUE]

\* one run of fillMissingPortfolioHistory
FillRun ==
  /\ backfill.pc = "ready"
  /\ backfill.runs < 2
  /\ \E F \in AtMost(BackfillPoints, MaxFaults) :
       backfill' = [backfill EXCEPT
                      !.store = FillMissingPortfolioHistory(backfill, F),
                      !.before = backfill.store,
                      !.runs = @ + 1,
                      !.clean = @ /\ F = {}]
  /\ UNCHANGED <<roundVars, sideVars, valuation, rateCache>>

BackfillInit ==
  /\ RoundInit
  /\ analysis = NoAnalysis
  /\ retry = NoRetry
  /\ clock = NoClock
  /\ trigger = NoTrigger
  /\ valuation = NoValuation
  /\ \E w \in 0..6, zone \in ServerZones,
        g \in [0..LastDay -> 0..2], c \in 0..1 :
       backfill = NewBackfill(w, zone,
                              PointsOf("gpt", g)
                              \cup PointsOf("claude", [d \in 0..LastDay |->
                                                        IF d = 1 THEN c ELSE 0]))
  /\ rateCache = NoRateCache

BackfillNext == FillRun

BackfillSpec == BackfillInit /\ [][BackfillNext]_vars

----------------------------------------------------------------------------
(* StockPriceService: the exchange-rate cache                              *)

\* EXCHANGE_RATE_CACHE_DURATION = 60 * 1000
ExchangeRateCacheDuration == 60000
\* the last instant of the walks of Date.now(), in ms
LastInstant == 300000
\* the time that passes between two calls, in ms
Pauses == {20000, 60000}
\* what a fetch meets: a rate of the upstream source, or a failure (a
\* response that is not ok or has no rate, or a thrown error)
UpstreamAnswers == {[ok |-> TRUE, rate |-> r] : r \in {1300, 1400}}
                   \cup {[ok |-> FALSE, rate |-> 0]}

NoCall == [at |-> 0, hit |-> FALSE, contacted |-> FALSE, fetched |-> FALSE,
           returned |-> 0, cachedBefore |-> 0, fetchBefore |-> 0]

\* a service just constructed (cachedExchangeRate = null is 0 here,
\* lastExchangeRateFetch = 0), with or without a key of the rate source
NewRateCache(hasKey, now) ==
  [pc |-> "run", hasKey |-> hasKey, now |-> now,
   cachedExchangeRate |-> 0, lastExchangeRateFetch |-> 0,
   call |-> NoCall]

\* the call record of getExchangeRate at the instant c.now
RateCall(c, hit, contacted, fetched, returned) ==
  [at |-> c.now, hit |-> hit, contacted |-> contacted, fetched |-> fetched,
   returned |-> returned, cachedBefore |-> c.cachedExchangeRate,
   fetchBefore |-> c.lastExchangeRateFetch]

\* getExchangeRate past the cache: without a key the simulated rate (up
\* stands for it then), with a key the answer of the upstream source
FetchExchangeRate(c, up) ==
  IF ~c.hasKey \/ up.ok
  THEN [c EXCEPT !.cachedExchangeRate = IF up.ok THEN up.rate ELSE DefaultRate,
                 !.lastExchangeRateFetch = c.now,
                 !.call = RateCall(c, FALSE, c.hasKey, TRUE,
                                   IF up.ok THEN up.rate ELSE DefaultRate)]
  ELSE [c EXCEPT !.call = RateCall(c, FALSE, TRUE, FALSE,
                                   IF c.cachedExchangeRate # 0
                                   THEN c.cachedExchangeRate
                                   ELSE DefaultRate)]

\* variant of GetExchangeRateAt whose cache still holds at the end of its
\* duration
GetExchangeRateAtInclusive(c, up) ==
  IF c.cachedExchangeRate # 0
     /\ c.now - c.lastExchangeRateFetch <= ExchangeRateCacheDuration
  THEN [c EXCEPT !.call = RateCall(c, TRUE, FALSE, FALSE, c.cachedExchangeRate)]
  ELSE FetchExchangeRate(c, up)

\* getExchangeRate with the cache of StockPriceService
GetExchangeRateAt(c, up) ==
  IF c.cachedExchangeRate # 0
     /\ c.now - c.lastExchangeRateFetch < ExchangeRateCacheDuration
  THEN [c EXCEPT !.call = RateCall(c, TRUE, FALSE, FALSE, c.cachedExchangeRate)]
  ELSE FetchExchangeRate(c, up)

\* one call of getExchangeRate
RateCalled ==
  /\ rateCache.pc = "run"
  /\ \E up \in UpstreamAnswers :
       rateCache' = GetExchangeRateAt(rateCache, up)
  /\ UNCHANGED <<roundVars, sideVars, valuation, backfill>>

\* time passes between two calls
RatePause ==
  /\ rateCache.pc = "run"
  /\ \E p \in Pauses :
       /\ rateCache.now + p <= LastInstant
       /\ rateCache' = [rateCache EXCEPT !.now = @ + p]
  /\ UNCHANGED <<roundVars, sideVars, valuation, backfill>>

RateCacheInit ==
  /\ RoundInit
  /\ analysis = NoAnalysis
  /\ retry = NoRetry
  /\ clock = NoClock
  /\ trigger = NoTrigger
  /\ valuation = NoValuation
  /\ backfill = NoBackfill
  /\ \E hasKey \in BOOLEAN, now \in {100000, 110000} :
       rateCache = NewRateCache(hasKey, now)

RateCacheNext == RateCalled \/ RatePause

RateCacheSpec == RateCacheInit /\ [][RateCacheNext]_vars

----------------------------------------------------------------------------
(* Properties *)

\* the rows of the traded ticker held now by the model of the iteration
RowsNow ==
  {h \in holdings : h.model_id = last.model /\ h.ticker = last.t.ticker
                    /\ h.market = last.t.market}

\* cost of the trade executeTrade was called for
TotalAmount == RMul(R(last.t.shares), last.t.price)

\* executeTrade was called for tradeType and returned the trade
Traded(tradeType) ==
  last.t.called /\ last.t.tradeType = tradeType /\ last.t.result = "trade"

\* C1: after every executed decision (exchange, BUY with or without the
\* automatic exchange, SELL, HOLD) no stored KRW or USD balance is negative.
BalancesNonNegative ==
  \A m \in ModelIds : /\ ~RLt(cash[m].krw_balance, Zero)
                      /\ ~RLt(cash[m].usd_balance, Zero)

\* C2: every successful BUY leaves exactly one row for the (model, ticker,
\* market): n shares at price p when there was no row, and otherwise the old
\* shares plus n with avg_price * shares = old avg_price * old shares + n * p,
\* so that a sequence of BUYs from no holding gives the share-weighted mean.
BuyKeepsWeightedMean ==
  (Traded("BUY") /\ Cardinality(last.t.rowsBefore) <= 1) =>
    /\ last.t.rowsBefore = {} =>
         \E h \in RowsNow : /\ RowsNow = {h}
                            /\ h.shares = last.t.shares
                            /\ h.avg_price = last.t.price
    /\ \A b \in last.t.rowsBefore :
         \E h \in RowsNow :
           /\ RowsNow = {h}
           /\ h.shares = b.shares + last.t.shares
           /\ RMul(h.avg_price, R(h.shares)) =
                RAdd(RMul(b.avg_price, R(b.shares)), TotalAmount)

\* C3: a successful SELL of exactly the held shares deletes the row; a
\* successful SELL of fewer shares lowers the row's shares by the sold amount
\* and leaves its avg_price unchanged.
SellLowersHolding ==
  Traded("SELL") =>
    /\ last.t.rowsBefore = {last.t.found}
    /\ last.t.found.shares >= last.t.shares
    /\ last.t.found.shares = last.t.shares => RowsNow = {}
    /\ last.t.found.shares > last.t.shares =>
         RowsNow = {[last.t.found EXCEPT
                       !.shares = @ - last.t.shares,
                       !.current_price = last.t.price]}

\* C3 witness: a partial SELL at a price other than the average price
PartialSellDone ==
  /\ Traded("SELL")
  /\ last.t.found.shares > last.t.shares
  /\ last.t.found.avg_price # last.t.price

\* C4: every stored holding row has shares > 0; a BUY/SELL decision with
\* shares <= 0 never reaches executeTrade, and a SELL that finds no holding
\* or fewer shares than asked is not executed and leaves the rows as they
\* were.
SharesPositive ==
  /\ \A h \in holdings : h.shares > 0
  /\ (last.phase = "executed" /\ last.decision[1].action # "HOLD"
      /\ (last.decision[1].shares = << >>
          \/ last.decision[1].shares[1] <= 0)) =>
       (~last.t.called /\ ~last.executed)
  /\ (last.t.called /\ last.t.tradeType = "SELL"
      /\ (last.t.found = NoRow \/ last.t.found.shares < last.t.shares)) =>
       (last.t.result # "trade" /\ RowsNow = last.t.rowsBefore)

\* C4 witness: a SELL of all the held shares was executed and the row is gone
WholeSellDone ==
  /\ Traded("SELL")
  /\ last.t.found.shares = last.t.shares
  /\ RowsNow = {}

\* the source and the target balance of an exchange call
SourceOf(c) == IF c.type = "KRW_TO_USD" THEN "krw_balance" ELSE "usd_balance"
TargetOf(c) == IF c.type = "KRW_TO_USD" THEN "usd_balance" ELSE "krw_balance"

\* what C5 states of one exchange call c
ExchangeRespectsLimit(c) ==
  c.called =>
    /\ (RLe(c.requested, Zero) \/ RLe(c.readSource, Zero)) => ~c.success
    /\ ~c.success => c.after = c.before
    /\ c.success =>
         /\ RLt(Zero, c.actual)
         /\ RLe(c.actual, MaxExchangeAmount(c.readSource))
         /\ c.credited = IF c.type = "KRW_TO_USD"
                         THEN RDiv(c.actual, R(c.rate))
                         ELSE RMul(c.actual, R(c.rate))
         /\ c.after[SourceOf(c)] = RSub(c.before[SourceOf(c)], c.actual)
         /\ RLe(Zero, c.after[SourceOf(c)])
         /\ c.after[TargetOf(c)] = RAdd(c.before[TargetOf(c)], c.credited)

\* C5: every exchange call (of a decision, or the automatic one of a BUY)
\* converts a positive amount of at most 80% of the source balance it read,
\* leaves the source balance >= 0, credits the target with the converted
\* amount at the rate used, and rejects a non-positive amount or an empty
\* source balance without changing a balance.
ExchangeWithinLimit ==
  ExchangeRespectsLimit(last.x) /\ ExchangeRespectsLimit(last.t.auto)

\* what C6 states of the ledger after the BUY, for balances krw and usd and
\* no holding before it
KrBuyBooked(krw, usd) ==
  /\ cash[last.model].krw_balance = RSub(krw, TotalAmount)
  /\ cash[last.model].usd_balance = usd
  /\ \E h \in RowsNow : /\ RowsNow = {h}
                        /\ h.shares = last.t.shares
                        /\ h.avg_price = last.t.price
  /\ Len(trades) = last.t.tradesBefore + 1
  /\ trades[Len(trades)] =
       [model_id |-> last.model, ticker |-> last.t.ticker, market |-> "KR",
        trade_type |-> "BUY", shares |-> last.t.shares,
        price |-> last.t.price, total_amount |-> TotalAmount]

OneAutoExchange ==
  last.t.called =>
    /\ last.t.exchangeAttempts <= 1
    /\ last.t.auto.called <=> last.t.exchangeAttempts = 1
    /\ last.t.auto.called =>
         /\ last.t.tradeType = "BUY"
         /\ last.t.market = "US"
         /\ RLt(last.t.readUsd, TotalAmount)
         /\ last.t.auto.type = "KRW_TO_USD"
    /\ (last.t.auto.called /\ ~last.t.auto.success) =>
         last.t.result \in {"null", "throw"}
    /\ (last.t.tradeType = "BUY" /\ last.t.market = "KR"
        /\ RLt(last.t.readKrw, TotalAmount)) =>
         (~last.t.auto.called /\ last.t.result \in {"null", "throw"}
          /\ Len(trades) = last.t.tradesBefore)
    /\ last.t.result \in {"trade", "null", "throw"}
    /\ Len(trades) - last.t.tradesBefore \in {0, 1}
    /\ last.t.result = "trade" <=> Len(trades) = last.t.tradesBefore + 1

\* C7 witness: a US BUY completed after its one automatic exchange
AutoExchangedBuy ==
  /\ Traded("BUY")
  /\ last.t.auto.called
  /\ last.t.auto.success
  /\ last.t.exchangeAttempts = 1

\* C8: the round never throws to its caller; a round that met an exception
\* is over and has returned success = false with the tradesExecuted count
\* and the results accumulated before the error.
RoundNeverThrows ==
  /\ ~ret.threw
  /\ pc = "done" => /\ ret.returned
                    /\ ret.tradesExecuted = tradesExecuted
                    /\ ret.results = results
  /\ last.phase = "threw" => /\ pc = "done"
                             /\ ~ret.success
                             /\ ret.tradesExecuted = tradesExecuted
                             /\ ret.results = results

\* C8 witness: the round failed at its second model after a trade of the first
FailedRoundWithResults ==
  /\ last.phase = "threw"
  /\ ret.returned
  /\ ret.tradesExecuted = 1
  /\ Len(ret.results) = 1

\* C9: a ledger failure while one model is processed leaves no later model
\* of the round unprocessed.
LaterModelsProcessed ==
  (pc = "done" /\ last.phase = "threw" /\ last.model # "") =>
    idx >= Len(models)

\* the decision request of the iteration gave no decision
NullDecision ==
  /\ last.phase \notin {"none", "threw", "no_models"}
  /\ (last.response # "tool" \/ last.rawAction \notin {"BUY", "SELL", "HOLD"})

\* C10: a null decision (no usable key, vendor error, reply without decision,
\* action outside BUY/SELL/HOLD) makes the round append a skip entry for the
\* model, write nothing to the ledger, and go on: to the next model, or to
\* the successful end of the round.
NullDecisionSkipped ==
  NullDecision =>
    /\ last.phase = "skipped"
    /\ ~last.x.called /\ ~last.t.called
    /\ Len(results) > 0
    /\ results[Len(results)] = [model |-> last.model,
                                action |-> "SKIPPED_NO_API_KEY",
                                ticker |-> <<"">>]
    /\ Snapshot(World) = last.pre[1]
    /\ idx = Len(results) + 1
    /\ \/ pc = "loop"
       \/ pc = "done" /\ ret.returned /\ ret.success /\ ret.results = results

\* C10 witness: the first model answered with an unknown action and was
\* skipped, and the second model is about to be processed
SkippedThenNext ==
  /\ last.phase = "skipped"
  /\ last.rawAction = "WAIT"
  /\ pc = "loop"
  /\ idx = 2
  /\ Len(models) = 2

----------------------------------------------------------------------------
(* Properties of a decision request *)

\* the configured key is missing or lacks the prefix of its provider
KeyRefused ==
  \/ analysis.apiKey = << >>
  \/ ~StartsWith(analysis.apiKey, KeyPrefix(analysis.provider))

\* the vendor answered outside 2xx or with content that holds no decision
NoUsableAnswer ==
  \/ analysis.reply.kind \in {"http_error", "malformed", "bad_arguments"}
  \/ analysis.reply.kind = "text" /\ analysis.reply.text.json # "object"

\* C11: a decision request, with or without tools, returns null without any
\* vendor request when the key is missing or lacks the provider's prefix;
\* it returns null and never throws on an answer outside 2xx or on malformed
\* content; a decision it returns has the action BUY, SELL or HOLD
RequestAnswersNullOrDecision ==
  analysis.pc # "idle" =>
    /\ analysis.returned # "throw"
    /\ (analysis.pc # "start" /\ KeyRefused) =>
         (analysis.pc = "done" /\ analysis.requests = 0
          /\ analysis.returned = "null")
    /\ (analysis.pc = "done" /\ NoUsableAnswer) => analysis.returned = "null"
    /\ analysis.returned = "decision" =>
         (analysis.result # << >>
          /\ analysis.result[1].action \in {"BUY", "SELL", "HOLD"})

\* a key with the wrong prefix was refused before any request
WrongPrefixRefused ==
  /\ analysis.pc = "done"
  /\ analysis.provider = "anthropic"
  /\ analysis.apiKey = <<"sk-", "proj">>
  /\ analysis.requests = 0
  /\ analysis.returned = "null"

\* C13: a tool-calling request sends at most 5 chat requests; it ends with
\* the parsed decision as soon as the model calls make_trade_decision, with
\* null on text without valid decision, with null after the 5th turn of
\* lookups, and it always ends
ToolLoopEnds ==
  /\ [](analysis.pc # "idle" /\ analysis.mode = "tools" =>
          /\ analysis.requests <= MaxToolIterations
          /\ analysis.reply.kind = "decision" =>
               (analysis.pc = "done"
                /\ analysis.result = ParseToolDecision(analysis.reply.args))
          /\ (analysis.reply.kind = "text"
              /\ ParseAIResponse(analysis.reply.text) = << >>) =>
               (analysis.pc = "done" /\ analysis.returned = "null")
          /\ (analysis.pc = "done" /\ analysis.reply.kind = "tools") =>
               (analysis.requests = MaxToolIterations
                /\ analysis.returned = "null"))
  /\ <>(analysis.pc = "done")

\* the request gave up after five turns of lookups
GaveUpAfterFifthTurn ==
  /\ analysis.pc = "done"
  /\ analysis.mode = "tools"
  /\ analysis.reply.kind = "tools"
  /\ analysis.requests = 5
  /\ analysis.returned = "null"

----------------------------------------------------------------------------
(* Properties of the round, continued *)

\* C12: a round that finds no active model returns success = false,
\* tradesExecuted = 0 and no results, throws nothing, asks no model for a
\* decision and leaves the ledger as it was
EmptyRoundDoesNothing ==
  last.phase = "no_models" =>
    /\ pc = "done"
    /\ ret = [returned |-> TRUE, threw |-> FALSE, success |-> FALSE,
               tradesExecuted |-> 0, results |-> << >>]
    /\ last.response = ""
    /\ last.pre = <<Snapshot(World)>>

\* a round without active model ended after an earlier round had traded
EmptyRoundAfterTrade ==
  /\ last.phase = "no_models"
  /\ Len(trades) > 0
  /\ ret.returned

----------------------------------------------------------------------------
(* Properties of the ledger store *)

\* every attempt of the call failed with an error withRetry takes for a
\* network error
AllAttemptsNetwork ==
  /\ retry.outcome = "throw"
  /\ \A i \in 1..Len(retry.errors) : IsNetworkError(retry.errors[i])

\* C14: withRetry re-attempts a failed operation up to 3 times, each
\* re-attempt after a delay of 1000 ms times the attempt number and only
\* after a network error; another error is thrown after the first attempt,
\* the first successful attempt's value is returned, and when every
\* attempt fails the last error is thrown
RetriesThreeTimes ==
  retry.pc = "done" /\ retry.operation \in RetriedOperations =>
    /\ Len(retry.delays) <= 3
    /\ AllAttemptsNetwork => Len(retry.delays) = 3
    /\ \A i \in 1..Len(retry.delays) :
         /\ retry.delays[i] = 1000 * i
         /\ IsNetworkError(retry.errors[i])
    /\ retry.outcome = "throw" =>
         retry.thrown = retry.errors[Len(retry.errors)]
    /\ retry.outcome = "value" => Len(retry.errors) = Len(retry.delays)

\* C15: no ledger read and no ledger write raises to its caller: a read
\* answers an error with its empty default, a write with false
StoreNeverRaises ==
  (retry.pc = "done"
   /\ \A i \in 1..Len(retry.answers) : retry.answers[i] # "rejects") =>
    /\ retry.outcome = "value"
    /\ retry.answers[Len(retry.answers)] = "error" =>
         retry.value = DefaultOf(retry.operation)

----------------------------------------------------------------------------
(* Properties of the market calendar *)

\* the Korean weekday and wall clock of the instant
KoreanDay == DayOfWeek(clock.w, clock.t, KstOffset)
KoreanMinutes == WallMinutes(clock.t, KstOffset)

\* C16: isMarketOpen('KR') is true only on Monday to Friday of Korean time
\* from 09:00 (included) to 15:00 (excluded), and false on every instant of
\* a Korean Saturday or Sunday
KrOpenOnlyInSession ==
  (clock.pc = "run" /\ clock.kr # << >>) =>
    /\ clock.kr[1] =>
         (KoreanDay \in 1..5 /\ KoreanMinutes >= 540 /\ KoreanMinutes < 900)
    /\ KoreanDay \in {0, 6} => ~clock.kr[1]

\* the same statement of the copy in part_000 alone
KrOpenOnlyInSessionFromUTC ==
  (clock.pc = "run" /\ clock.kr # << >> /\ clock.version = "part_000") =>
    /\ clock.kr[1] =
         (KoreanDay \in 1..5 /\ KoreanMinutes >= 540 /\ KoreanMinutes < 900)
    /\ KoreanDay \in {0, 6} => ~clock.kr[1]

\* US daylight saving: from 02:00 Eastern standard time of the second
\* Sunday of March to 02:00 Eastern daylight time of the first Sunday of
\* November
UsDaylightSaving ==
  /\ clock.t >= (7 + ((7 - clock.w) % 7)) * 1440 + 120 + 300
  /\ clock.t < (245 + ((7 - clock.w) % 7)) * 1440 + 120 + 240

\* the weekday of the instant in New York
UsDay ==
  DayOfWeek(clock.w, clock.t, IF UsDaylightSaving THEN -240 ELSE -300)

\* what C17 requires of isMarketOpen('US') at the instant
UsSession ==
  /\ UsDay \in 1..5
  /\ IF UsDaylightSaving
     THEN KoreanMinutes >= 1350 \/ KoreanMinutes < 300
     ELSE KoreanMinutes >= 1410 \/ KoreanMinutes < 360

\* C17: isMarketOpen('US') is true exactly on a weekday of the US calendar
\* with Korean wall clock in 23:30-06:00 outside US daylight saving and in
\* 22:30-05:00 during it, daylight saving running from the second Sunday of
\* March to the first Sunday of November
UsOpenExactlyInSession ==
  (clock.pc = "run" /\ clock.us # << >>) => clock.us[1] = UsSession

\* the same statement of the copy in part_000 alone
UsOpenExactlyInSessionFromUTC ==
  (clock.pc = "run" /\ clock.us # << >> /\ clock.version = "part_000") =>
    clock.us[1] = UsSession

----------------------------------------------------------------------------
(* Properties of the trigger endpoint and of concurrent rounds *)

\* C18: POST /api/trigger/:market answers 400 without a round when market
\* is neither KR nor US, runs exactly one round otherwise, and answers 500
\* when that round failed internally
TriggerStatus ==
  trigger.post.pc = "answered" =>
    /\ trigger.post.market \notin {"KR", "US"} =>
         (trigger.post.status = 400 /\ trigger.post.rounds = 0)
    /\ trigger.post.market \in {"KR", "US"} =>
         /\ trigger.post.rounds = 1
         /\ trigger.round["post"].pc = "return"
         /\ ~trigger.round["post"].result.success =>
              trigger.post.status = 500

\* a round is between its first and its last ledger operation
InProgress(s) == trigger.round[s].pc \in {"read", "write"}

\* C19: the ledger operations of two rounds never interleave - while the
\* round of the tick is in progress the round of the request is not - and
\* no update of the model's cash is lost: the balances are the initial ones
\* less the debits of the trades
RoundsNeverInterleave ==
  trigger.pc = "run" =>
    /\ ~(InProgress("tick") /\ InProgress("post"))
    /\ trigger.cash.krw = NewTrigger.cash.krw + trigger.debits.krw
    /\ trigger.cash.usd = NewTrigger.cash.usd + trigger.debits.usd

\* C20: between the decision request of one model and the decision request
\* of the next model the one-second pause elapses, whatever became of the
\* earlier model: the loop moves on to a next model only by its pause
PauseBetweenModels ==
  [][(pc \in {"loop", "execute", "pause"}
      /\ idx' = idx + 1 /\ idx' <= Len(models)) => pc = "pause"]_vars

----------------------------------------------------------------------------
(* Properties of executeTradeDecision *)

\* the iteration has run executeTradeDecision to its end for a HOLD
HoldDone ==
  /\ last.phase = "executed"
  /\ last.decision[1].action = "HOLD"

\* C25 as stated: a HOLD decision appends exactly one hold-scenario record
\* and stops - no quote is requested, no trade record is appended, no
\* holding changes, the decision is not counted as an executed trade, and
\* the KRW and USD balances of the model are those of before the decision
HoldChangesNothingElse ==
  HoldDone =>
    /\ Len(scenarios) = Len(last.pre[1].scenarios) + 1
    /\ ~last.quoted
    /\ ~last.executed
    /\ trades = last.pre[1].trades
    /\ holdings = last.pre[1].holdings
    /\ cash = last.pre[1].cash

\* C25, amended: the exchange a HOLD decision carries runs first and may
\* move cash between the two balances; the HOLD step after it appends
\* exactly one hold-scenario record (none when the store refuses the
\* insert) and stops - no quote, no trade record, no exchange record, no
\* holding change, no balance change, nothing counted in tradesExecuted
HoldStepOnlyRecords ==
  [][(pc = "execute" /\ decision[1].action = "HOLD") =>
       /\ pc' = "pause"
       /\ Len(scenarios') = Len(scenarios) + (IF faults' = faults THEN 1 ELSE 0)
       /\ ~last'.quoted
       /\ trades' = trades
       /\ exchanges' = exchanges
       /\ holdings' = holdings
       /\ cash' = cash
       /\ tradesExecuted' = tradesExecuted]_vars

\* a HOLD that carried an exchange: the balances moved, one hold-scenario
\* record was appended
HoldAfterExchange ==
  /\ HoldDone
  /\ last.x.success
  /\ cash # last.pre[1].cash
  /\ Len(scenarios) = Len(last.pre[1].scenarios) + 1

\* the amount of the order executeTrade was called with
OrderAmount == RMul(R(last.t.shares), last.t.price)

\* executeTrade refused the BUY for its balance: the trading currency it
\* read is short, and for the US market the automatic exchange did not
\* make up for it
BuyRefused ==
  /\ last.t.called
  /\ last.t.tradeType = "BUY"
  /\ last.t.result = "null"
  /\ IF last.t.market = "KR"
     THEN RLt(last.t.readKrw, OrderAmount)
     ELSE RLt(last.t.readUsd, OrderAmount) /\ ~last.t.auto.success

\* executeTrade refused the SELL for its holding: none found, or one with
\* fewer shares than the order
SellRefused ==
  /\ last.t.called
  /\ last.t.tradeType = "SELL"
  /\ (last.t.found = NoRow \/ last.t.found.shares < last.t.shares)

\* the iteration ended with a rejected BUY or SELL: no ticker, shares <= 0,
\* no quote or a price <= 0 (executeTrade is not called), or executeTrade
\* refused the order
RejectedTrade ==
  /\ last.phase = "executed"
  /\ last.decision[1].action \in {"BUY", "SELL"}
  /\ (~last.t.called \/ BuyRefused \/ SellRefused)

\* C26 as stated: a rejected BUY or SELL decision is discarded - the cash,
\* the holdings and the trade records are those of before the decision, and
\* the decision is not counted as an executed trade
RejectedDecisionDiscarded ==
  RejectedTrade =>
    /\ cash = last.pre[1].cash
    /\ holdings = last.pre[1].holdings
    /\ trades = last.pre[1].trades
    /\ ~last.executed

\* C26, amended: the exchange a BUY or SELL decision carries has run before
\* the order is examined; the rejection of the order then changes nothing -
\* cash, holdings and trade records stay as that exchange left them, and
\* the decision is not counted in tradesExecuted
RejectedOrderDiscarded ==
  [][(pc = "execute" /\ pc' = "pause" /\ RejectedTrade') =>
       /\ cash' = cash
       /\ holdings' = holdings
       /\ trades' = trades
       /\ exchanges' = exchanges
       /\ tradesExecuted' = tradesExecuted]_vars

\* a BUY with an exchange that executeTrade refused for its balance: the
\* exchange moved the cash, the order changed nothing
RefusedBuyAfterExchange ==
  /\ RejectedTrade
  /\ BuyRefused
  /\ last.x.success
  /\ cash # last.pre[1].cash
  /\ cash[last.model] = last.t.cashBefore

----------------------------------------------------------------------------
(* Properties of executeTrade *)

\* C27: after every SELL that executeTrade reports as executed, the stored
\* balance of the trading currency is the balance stored before the sale
\* plus shares x price and the other balance is the one stored before,
\* whatever the ledger reads of the sale answered
SellCreditsProceeds ==
  (/\ last.phase = "executed"
   /\ last.t.called
   /\ last.t.tradeType = "SELL"
   /\ last.t.result = "trade") =>
    IF last.t.market = "KR"
    THEN /\ cash[last.model].krw_balance =
              RAdd(last.t.cashBefore.krw_balance, OrderAmount)
         /\ cash[last.model].usd_balance = last.t.cashBefore.usd_balance
    ELSE /\ cash[last.model].usd_balance =
              RAdd(last.t.cashBefore.usd_balance, OrderAmount)
         /\ cash[last.model].krw_balance = last.t.cashBefore.krw_balance

\* the rows of the ordered ticker the model of the iteration holds now
OrderRows ==
  {h \in holdings : /\ h.model_id = last.model
                    /\ h.ticker = last.t.ticker
                    /\ h.market = last.t.market}

\* executeTrade returned null because a ledger write reported a failure:
\* it was called, threw nothing and did not refuse the order
WriteFailed ==
  /\ last.phase = "executed"
  /\ last.t.called
  /\ last.t.result = "null"
  /\ ~BuyRefused
  /\ ~SellRefused

\* C28 as stated: executeTrade is all-or-nothing with respect to write
\* failures - when it returns null because a ledger write reported a
\* failure, the stored cash and holdings are those of before the call
TradeAllOrNothing ==
  WriteFailed =>
    /\ cash[last.model] = last.t.cashBefore
    /\ OrderRows = last.t.rowsBefore

\* the stored balances of the model are the ones executeTrade writes for
\* the order: the balances it read, with the amount of the order added to
\* (SELL) or taken from (BUY) the trading currency.  After an automatic
\* exchange the debit is computed from balances read again.
CashWritten ==
  \/ last.t.auto.success
  \/ /\ last.t.market = "KR"
     /\ cash[last.model].usd_balance = last.t.readUsd
     /\ cash[last.model].krw_balance =
          IF last.t.tradeType = "SELL" THEN RAdd(last.t.readKrw, OrderAmount)
          ELSE RSub(last.t.readKrw, OrderAmount)
  \/ /\ last.t.market = "US"
     /\ cash[last.model].krw_balance = last.t.readKrw
     /\ cash[last.model].usd_balance =
          IF last.t.tradeType = "SELL" THEN RAdd(last.t.readUsd, OrderAmount)
          ELSE RSub(last.t.readUsd, OrderAmount)

\* C28, amended: the ledger writes of executeTrade are independent and run
\* in the order cash, holding, trade record; a write that reports a failure
\* ends the call with null and leaves the earlier writes in place.  So
\* after such a null no trade record is appended and nothing is counted,
\* and the holding has changed only when the cash was written
TradeWritesInOrder ==
  WriteFailed =>
    /\ Len(trades) = last.t.tradesBefore
    /\ ~last.executed
    /\ OrderRows # last.t.rowsBefore => CashWritten

\* a BUY whose cash was debited and whose holding write failed: null, the
\* cash of the order gone and no holding for it
DebitedWithoutHolding ==
  /\ WriteFailed
  /\ last.t.tradeType = "BUY"
  /\ cash[last.model] # last.t.cashBefore
  /\ OrderRows = last.t.rowsBefore

\* C29: the ledger holds at most one holding row per model, ticker and
\* market - a BUY inserts a row only when the ledger has none for the
\* ticker, also when its lookup of the holding fails
OneRowPerHolding ==
  \A h1, h2 \in holdings :
    (/\ h1.model_id = h2.model_id
     /\ h1.ticker = h2.ticker
     /\ h1.market = h2.market) => h1 = h2

----------------------------------------------------------------------------
(* Properties of what the round returns *)

\* C30: the tradesExecuted a round returns is the number of trade records
\* appended during the round; its results hold at most one entry per
\* active model, in the order the models were processed; and
\* tradesExecuted <= length(results) <= number of active models
RoundCountsTrades ==
  (pc = "done" /\ ret.returned) =>
    /\ ret.tradesExecuted = Len(trades) - tradesAtStart
    /\ ret.tradesExecuted <= Len(ret.results)
    /\ ret.results # << >> =>
         /\ Len(ret.results) <= Len(models)
         /\ \A i \in 1..Len(ret.results) : ret.results[i].model = models[i]

\* a round of two models returned: one trade recorded, two results
TwoModelsOneTrade ==
  /\ pc = "done"
  /\ ret.returned
  /\ ret.success
  /\ ret.tradesExecuted = 1
  /\ Len(trades) = tradesAtStart + 1
  /\ Len(ret.results) = 2

----------------------------------------------------------------------------
(* Properties of the tick and of the valuation job *)

\* the runs, failures and waits of recordPortfolioValuesWithRetry so far:
\* at most 3 runs, each after the two market checks, every run but the
\* last one a failure, and 5 seconds waited before each run after the first
ValuationRunsBounded ==
  /\ valuation.pc # "threw"
  /\ valuation.runs <= ValuationRetries + 1
  /\ valuation.runs > 0 => valuation.pc # "tick"
  /\ valuation.pc = "run" =>
       /\ valuation.failures = valuation.runs
       /\ valuation.waitedMs = ValuationDelayMs * valuation.runs
  /\ valuation.pc = "wait" =>
       /\ valuation.failures = valuation.runs
       /\ valuation.waitedMs = ValuationDelayMs * (valuation.runs - 1)
  /\ valuation.pc = "returned" =>
       /\ valuation.runs >= 1
       /\ valuation.waitedMs = ValuationDelayMs * (valuation.runs - 1)
       /\ \/ ~valuation.run.thrown /\ valuation.failures = valuation.runs - 1
          \/ /\ valuation.run.thrown
             /\ valuation.failures = valuation.runs
             /\ valuation.runs = ValuationRetries + 1

RowValue(rows, modelId, id, rate) ==
  IF \E h \in rows : h.id = id /\ h.model_id = modelId
  THEN LET h == CHOOSE x \in rows : x.id = id /\ x.model_id = modelId
       IN IF h.market = "US" THEN h.shares * h.current_price * rate
          ELSE h.shares * h.current_price
  ELSE 0

\* the value of the model in the store the last run left, at its rate
StoredValue(modelId) ==
  valuation.cash[modelId].krw_balance
  + valuation.cash[modelId].usd_balance * valuation.run.rate
  + RowValue(valuation.run.rows, modelId, 1, valuation.run.rate)
  + RowValue(valuation.run.rows, modelId, 2, valuation.run.rate)
  + RowValue(valuation.run.rows, modelId, 3, valuation.run.rate)

\* the history points the last run appended for the model
NewPoints(modelId) ==
  {i \in (valuation.run.before + 1)..Len(valuation.points) :
     valuation.points[i].model_id = modelId}

\* a call of the last run for the model failed
FailedFor(modelId) == \E f \in valuation.run.F : f[1] = modelId

\* the last run of the job loaded the models and went through its loop
ModelsValued ==
  /\ valuation.runs > 0
  /\ ~valuation.run.thrown
  /\ ~Failed(valuation.run.F, "job", "getAIModels")

\* C22: for every active model one run of the valuation job appends exactly
\* one portfolio-history point, whose value is KRW cash + USD cash x rate +
\* the sum of shares x current price over the holdings (US holdings x rate,
\* KR holdings not); a model for which a call fails is skipped - it gets no
\* point - and the other models are still valued
RunValuesEveryModel ==
  ModelsValued =>
    \A m \in ModelIds :
      /\ \A i \in NewPoints(m) : valuation.points[i].total_value = StoredValue(m)
      /\ Cardinality(NewPoints(m)) = IF FailedFor(m) THEN 0 ELSE 1

----------------------------------------------------------------------------
(* Properties of fillMissingPortfolioHistory *)

\* the points of the model in the store
HistoryOf(store, modelId) == {h \in store : h.model_id = modelId}

\* the days from the model's earliest point to today that are weekdays and
\* have no point of the model
MissingWeekdays(store, modelId) ==
  {d \in 0..LastDay :
     /\ \E h \in HistoryOf(store, modelId) : h.day < d
     /\ \A h \in HistoryOf(store, modelId) : h.day # d
     /\ (backfill.w + d) % 7 \notin {0, 6}}

\* the last value known before the day: the value of the latest point of
\* the model on an earlier day
LastKnownValue(store, modelId, d) ==
  (CHOOSE h \in HistoryOf(store, modelId) :
     /\ h.day < d
     /\ \A g \in HistoryOf(store, modelId) :
          g.day < d => (g.day < h.day \/ (g.day = h.day /\ g.minute <= h.minute))
  ).total_value

\* the points the claim has a run append to the store
ExpectedFill(store) ==
  UNION {{[model_id |-> m, day |-> d, minute |-> FillMinute,
           total_value |-> LastKnownValue(store, m, d)] :
            d \in MissingWeekdays(store, m)} : m \in ModelIds}

\* C23: a run of fillMissingPortfolioHistory appends, for each model and
\* each weekday between the model's earliest point and today that has no
\* point, exactly one point carrying the last known value, and nothing for
\* weekends or for days that have a point; a second run appends nothing
FillCarriesLastValue ==
  (backfill.pc = "ready" /\ backfill.runs >= 1 /\ backfill.clean) =>
    /\ backfill.store = backfill.before \cup ExpectedFill(backfill.before)
    /\ backfill.runs = 2 => backfill.store = backfill.before

----------------------------------------------------------------------------
(* Properties of the exchange-rate cache *)

\* the call found a rate fetched less than the cache duration ago
WithinLifetime(k) ==
  /\ k.cachedBefore # 0
  /\ k.at < k.fetchBefore + ExchangeRateCacheDuration

\* the call left the cache as it found it
CacheKept(k) ==
  /\ rateCache.cachedExchangeRate = k.cachedBefore
  /\ rateCache.lastExchangeRateFetch = k.fetchBefore

\* what the latest call k of getExchangeRate did, by the age of the rate
\* it found: served from the cache, fetched again, or failed to fetch
RateCallAsClaimed(k) ==
  IF WithinLifetime(k)
  THEN /\ k.hit
       /\ ~k.contacted
       /\ k.returned = k.cachedBefore
       /\ CacheKept(k)
  ELSE /\ ~k.hit
       /\ rateCache.hasKey => k.contacted
       /\ ~rateCache.hasKey => k.fetched
       /\ IF k.fetched
          THEN /\ rateCache.cachedExchangeRate = k.returned
               /\ rateCache.lastExchangeRateFetch = k.at
          ELSE /\ k.returned = (IF k.cachedBefore # 0 THEN k.cachedBefore
                                ELSE DefaultRate)
               /\ CacheKept(k)

\* C24: after getExchangeRate has fetched a rate at time t, every call
\* before t + 60 s returns the cached rate without contacting the upstream
\* source and the first call at or after t + 60 s fetches again; a failed
\* fetch returns the last cached rate (1320 when there is none) and does
\* not extend the lifetime of the cache
RateCachedForOneMinute ==
  rateCache.pc = "run" /\ rateCache.call # NoCall =>
    RateCallAsClaimed(rateCache.call)

\* a call exactly 60 s after the last fetch met a failing source: it
\* contacted the source, returned the cached rate and left the fetch time
FailedFetchAtExpiry ==
  /\ rateCache.pc = "run"
  /\ rateCache.call.cachedBefore # 0
  /\ rateCache.call.at = rateCache.call.fetchBefore + ExchangeRateCacheDuration
  /\ rateCache.call.contacted
  /\ ~rateCache.call.fetched
  /\ rateCache.call.returned = rateCache.call.cachedBefore
  /\ rateCache.lastExchangeRateFetch = rateCache.call.fetchBefore
====
